---- MODULE Spec2Model ----
(***************************************************************************)
(* A model of the event_handler package: the bind table (KeyMap), the      *)
(* key listener (KeyListener) with its callable registry, deferred method  *)
(* tagging, class registration, instance tracking and dispatch (notify).   *)
(*                                                                         *)
(* Python values are encoded as follows.                                   *)
(*   None (as a key or a modifier)   the integer None (-1); key codes and   *)
(*                                   modifier masks are naturals            *)
(*   dict                            a sequence of <<key, value>> pairs in   *)
(*                                   insertion order                        *)
(*   list                            a sequence                             *)
(*   tuple / None as a return value  a sequence / the empty sequence        *)
(*   KeyBind(bind_name, mod)         a record [bind_name, mod]              *)
(*   a raised exception              the handler stops where it raises,     *)
(*                                   keeping the mutations made so far, and *)
(*                                   last.raised names the exception        *)
(***************************************************************************)
EXTENDS Integers, Sequences, FiniteSets, TLC

\* ------------------------------------------------------------------ values

None == -1

KMOD_NONE == 0

KEYDOWN == 768

KEYUP == 769

\* Bounds of the model.
MaxLen == 2

MaxInst == 2

\* The value sets the operations draw their inputs from.
Names == {"a", "b"}

KeyCodes == {1, 2}

OptKeys == KeyCodes \cup {None}

Masks == 0 .. 3

OptMods == Masks \cup {None}

EventTypes == {KEYDOWN, KEYUP}

Listeners == {"D", "E"}

Managers == {"M"}

Funcs == {"f", "g"}

Methods == {"m1", "m2"}

Classes == {"T"}

\* The methods found in cls.__dict__, in definition order.
ClassDict(cls) == IF cls = "T" THEN <<"m1", "m2">> ELSE <<>>

\* ------------------------------------------------------------ dict helpers

DHas(d, k) == \E i \in 1 .. Len(d) : d[i][1] = k

DIdx(d, k) == CHOOSE i \in 1 .. Len(d) : d[i][1] = k

\* dict.get(k, dflt)
DGet(d, k, dflt) == IF DHas(d, k) THEN d[DIdx(d, k)][2] ELSE dflt

\* d[k] = v / d.update({k: v}): an existing key keeps its position.
DPut(d, k, v) ==
    IF DHas(d, k) THEN [d EXCEPT ![DIdx(d, k)] = <<k, v>>] ELSE Append(d, <<k, v>>)

\* dict.pop(k, None)
DPop(d, k) == SelectSeq(d, LAMBDA e : e[1] # k)

DKeys(d) == {d[i][1] : i \in 1 .. Len(d)}

\* list membership: x in l
InList(l, x) == \E i \in 1 .. Len(l) : l[i] = x

\* The number of occurrences of x in l.
Count(l, x) == Cardinality({i \in 1 .. Len(l) : l[i] = x})

\* a & b on non-negative masks, bit by bit.
RECURSIVE BitAnd(_, _)
BitAnd(a, b) ==
    IF a = 0 \/ b = 0 THEN 0
    ELSE (IF a % 2 = 1 /\ b % 2 = 1 THEN 1 ELSE 0) + 2 * BitAnd(a \div 2, b \div 2)

\* ---------------------------------------------------------------- KeyMap

KeyBind(bind_name, mod) == [bind_name |-> bind_name, mod |-> mod]

\* The (key, KeyBind) pairs of a table in the order the nested loops of
\* get_bound_key visit them: dict order, then list order.
RECURSIVE Items(_)
Items(kb) ==
    IF kb = <<>> THEN <<>>
    ELSE [j \in 1 .. Len(kb[1][2]) |-> <<kb[1][1], kb[1][2][j]>>] \o Items(Tail(kb))

\* KeyMap.get_bound_key: the first entry named bind_name as (key, mod), or None.
get_bound_key(kb, bind_name) ==
    LET hits == SelectSeq(Items(kb), LAMBDA e : e[2].bind_name = bind_name)
    IN  IF hits = <<>> THEN <<>> ELSE <<hits[1][1], hits[1][2].mod>>

\* The list of a trigger with every entry named bind_name removed.
WithoutName(l, bind_name) == SelectSeq(l, LAMBDA b : b.bind_name # bind_name)

\* dict.setdefault(key, []).append(bind)
AppendUnder(kb, key, bind) == DPut(kb, key, Append(DGet(kb, key, <<>>), bind))

\* KeyMap.rebind with the removal loop left out.
KeyMapRebindNoRemove(kb, new_key_bind, new_key) == AppendUnder(kb, new_key, new_key_bind)

\* KeyMap.rebind with the new key ignored: the bind always lands under None.
KeyMapRebindDropsKey(kb, new_key_bind, new_key) ==
    LET stripped == [i \in 1 .. Len(kb) |->
                        <<kb[i][1], WithoutName(kb[i][2], new_key_bind.bind_name)>>]
        pruned == SelectSeq(stripped, LAMBDA e : e[2] # <<>>)
    IN  AppendUnder(pruned, None, new_key_bind)

\* KeyMap.rebind: strip the name from every list, drop the keys whose list is
\* empty, then append the bind under new_key.
KeyMapRebind(kb, new_key_bind, new_key) ==
    LET stripped == [i \in 1 .. Len(kb) |->
                        <<kb[i][1], WithoutName(kb[i][2], new_key_bind.bind_name)>>]
        pruned == SelectSeq(stripped, LAMBDA e : e[2] # <<>>)
    IN  AppendUnder(pruned, new_key, new_key_bind)

\* KeyMap.remove_bind with the key ignored: the name is removed under every key.
KeyMapRemoveBindEverywhere(kb, bind_name, key) ==
    [i \in 1 .. Len(kb) |-> <<kb[i][1], SelectSeq(kb[i][2], LAMBDA b : b.bind_name # bind_name)>>]

\* KeyMap.remove_bind: under one key when a key is given (a missing or empty list
\* only warns), under every key otherwise; empty lists are not pruned.
KeyMapRemoveBind(kb, bind_name, key) ==
    IF key # None
    THEN IF DGet(kb, key, <<>>) = <<>> THEN kb
         ELSE DPut(kb, key, WithoutName(DGet(kb, key, <<>>), bind_name))
    ELSE [i \in 1 .. Len(kb) |-> <<kb[i][1], WithoutName(kb[i][2], bind_name)>>]

\* _generate_bind without the lookup: the bind is appended every time.
GenerateBindNoCheck(kb, key_bind_name, default_key, default_mod) ==
    AppendUnder(kb, default_key, KeyBind(key_bind_name, default_mod))

\* _generate_bind storing the bind with no modifier, whatever default_mod is.
GenerateBindDropsMod(kb, key_bind_name, default_key, default_mod) ==
    IF get_bound_key(kb, key_bind_name) = <<>>
    THEN AppendUnder(kb, default_key, KeyBind(key_bind_name, None))
    ELSE kb

\* KeyListener._generate_bind: create the bind under default_key unless the name
\* is found (a found (key, mod) tuple is always truthy).
GenerateBind(kb, key_bind_name, default_key, default_mod) ==
    IF get_bound_key(kb, key_bind_name) = <<>>
    THEN AppendUnder(kb, default_key, KeyBind(key_bind_name, default_mod))
    ELSE kb

\* KeyMap.merge: every bind of other whose name is absent from self is inserted
\* under the trigger it has in other; binds present in both keep self's entry.
RECURSIVE MergeItems(_, _)
MergeItems(kb, items) ==
    IF items = <<>> THEN kb
    ELSE MergeItems(GenerateBind(kb, items[1][2].bind_name, items[1][1], items[1][2].mod),
                    Tail(items))

KeyMapMerge(kb, other) == MergeItems(kb, Items(other))

\* --------------------------------------------------- export and import

\* pygame.key.name on the key codes of the model: each code has a name of its
\* own, and pygame.key.key_code gives the code back.
KeyName(key_code) == IF key_code = 1 THEN "k1" ELSE IF key_code = 2 THEN "k2" ELSE ""

KeyCode(key_name) == IF key_name = "k1" THEN 1 ELSE IF key_name = "k2" THEN 2 ELSE 0

\* Python's truth test of a trigger: None and 0 are false.
Truthy(key_code) == key_code # None /\ key_code # 0

\* The name pack_binds gives a trigger: "null" unless `if key_code:` passes.
PackedName(key_code) == IF Truthy(key_code) THEN KeyName(key_code) ELSE "null"

\* KeyMap.pack_binds: a dict from key names to lists of (bind_name, mod), filled
\* with dict.update in the order of key_binds.
RECURSIVE PackInto(_, _)
PackInto(packed_dict, kb) ==
    IF kb = <<>> THEN packed_dict
    ELSE PackInto(DPut(packed_dict, PackedName(kb[1][1]),
                       [i \in 1 .. Len(kb[1][2]) |->
                           <<kb[1][2][i].bind_name, kb[1][2][i].mod>>]),
                  Tail(kb))

PackBinds(kb) == PackInto(<<>>, kb)

\* JSONParser._unpack_binds: "null" becomes None, any other name its key code.
RECURSIVE UnpackInto(_, _)
UnpackInto(unpacked_dict, maps) ==
    IF maps = <<>> THEN unpacked_dict
    ELSE UnpackInto(DPut(unpacked_dict,
                         IF maps[1][1] # "null" THEN KeyCode(maps[1][1]) ELSE None,
                         [i \in 1 .. Len(maps[1][2]) |->
                             KeyBind(maps[1][2][i][1], maps[1][2][i][2])]),
                    Tail(maps))

UnpackBinds(maps) == UnpackInto(<<>>, maps)

\* ------------------------------------------------------------------ state

VARIABLES
    key_binds,                  \* KeyListener.key_map.key_binds, shared by every listener
    key_hooks,                  \* per listener: _key_hooks
    class_listeners,            \* per listener: _class_listeners
    class_listener_instances,   \* per listener: _class_listener_instances (WeakSets)
    class_listener_binds,       \* per listener: _class_listener_binds
    assigned_classes,           \* per listener: _assigned_classes
    has_marker,                 \* per method: hasattr(method, "_assigned_listeners")
    assigned_listeners,         \* per method: the list held by that attribute
    init_wrappers,              \* per class: the listeners whose wrapper cls.__init__ runs
    objects,                    \* the instances constructed so far: their class, or "dead"
    started,                    \* the threads started by the last notify, in start order
    last,                       \* the last call made: its arguments, result and exception
    noted,                      \* history kept for the properties that look back
    em,                         \* the EventManagers: registries, trackers, pending tags
    runs,                       \* per callable: the _runs_sequential / _runs_concurrent marks
    dispatch                    \* the notify that is running step by step, if any

mapVars == <<key_binds>>

regVars == <<key_hooks, class_listeners, class_listener_binds, assigned_classes>>

tagVars == <<has_marker, assigned_listeners>>

objVars == <<class_listener_instances, init_wrappers, objects>>

vars == <<key_binds, key_hooks, class_listeners, class_listener_instances,
          class_listener_binds, assigned_classes, has_marker, assigned_listeners,
          init_wrappers, objects, started, last, noted, em, runs, dispatch>>

\* The record of a call: what was called, by which listener, with which arguments,
\* what it returned (a tuple, or <<>> for None), what it raised ("" for nothing),
\* and what get_bound_key gave for the bind name when the call was made.
Call(op, who, name, key, mod, etype, target, ret, raised) ==
    [op |-> op, who |-> who, name |-> name, key |-> key, mod |-> mod,
     etype |-> etype, target |-> target, ret |-> ret, raised |-> raised,
     old |-> IF name = "" THEN <<>> ELSE get_bound_key(key_binds, name)]

\* EventManager.__init__ for every manager; no method carries _assigned_managers,
\* no class has a wrapped initializer, the application holds every instance.
EventManagerInit ==
    [listeners |-> [g \in Managers |-> <<>>],
     class_listeners |-> [g \in Managers |-> <<>>],
     class_listener_instances |-> [g \in Managers |-> <<>>],
     class_listener_events |-> [g \in Managers |-> <<>>],
     assigned_classes |-> [g \in Managers |-> <<>>],
     has_managers |-> [m \in Methods |-> FALSE],
     assigned_managers |-> [m \in Methods |-> <<>>],
     init_wrappers |-> [c \in Classes |-> <<>>],
     released |-> {}]

\* No notify is running: the loop position of KeyListener.notify when none is
\* under way. A running notify has its listener and event, the index b into the
\* list of binds of the event's key, the loop it is in (phase) with the bind
\* name it is at and the index i into that loop's list, and the threads it has
\* started; hooks is the listener's _key_hooks when it was entered and snapshot
\* the list of responders when their loop began.
Idle ==
    [phase |-> "idle", who |-> "", etype |-> 0, key |-> None, mod |-> None,
     b |-> 1, name |-> "", i |-> 1, started |-> <<>>, hooks |-> <<>>, snapshot |-> <<>>]

\* No callable carries a mark before sequential or concurrent is applied to it.
Unmarked == [c \in Funcs \cup Methods |-> [sequential |-> FALSE, concurrent |-> FALSE]]

\* KeyListener.__init__ for every listener, the empty class-level KeyMap, classes
\* with their original initializer and untagged methods, no instance.
Init ==
    /\ key_binds = <<>>
    /\ key_hooks = [l \in Listeners |-> <<>>]
    /\ class_listeners = [l \in Listeners |-> <<>>]
    /\ class_listener_instances = [l \in Listeners |-> <<>>]
    /\ class_listener_binds = [l \in Listeners |-> <<>>]
    /\ assigned_classes = [l \in Listeners |-> <<>>]
    /\ has_marker = [m \in Methods |-> FALSE]
    /\ assigned_listeners = [m \in Methods |-> <<>>]
    /\ init_wrappers = [c \in Classes |-> <<>>]
    /\ objects = <<>>
    /\ started = <<>>
    /\ last = Call("init", "", "", None, None, 0, "", <<>>, "")
    /\ noted = [rebound |-> <<>>, dereg |-> {}, waiting |-> {}]
    /\ em = EventManagerInit
    /\ runs = Unmarked
    /\ dispatch = Idle

\* Every list that the code lets grow without limit stays within MaxLen.
AllShort(d) == \A i \in 1 .. Len(d) : Len(d[i][2]) <= MaxLen

Bounded ==
    /\ \A m \in Methods : Len(assigned_listeners[m]) <= MaxLen
    /\ \A c \in Classes : Len(init_wrappers[c]) <= MaxLen
    /\ \A l \in Listeners :
          /\ AllShort(class_listener_binds[l])
          /\ AllShort(assigned_classes[l])
          /\ \A i \in 1 .. Len(class_listeners[l]) : AllShort(class_listeners[l][i][2])

\* ------------------------------------------------- KeyListener: registration

\* The decorator returned by bind: hooks.setdefault(name, {}).setdefault(event_type,
\* []) gets the responder appended unless it is already in the list.
HookAdd(kh, key_bind_name, event_type, responder) ==
    LET hooks == DGet(kh, key_bind_name, <<>>)
        listeners == DGet(hooks, event_type, <<>>)
        added == IF InList(listeners, responder) THEN listeners
                 ELSE Append(listeners, responder)
    IN  DPut(kh, key_bind_name, DPut(hooks, event_type, added))

\* A pending entry of a method: (listener, bind_name, default_key, default_mod,
\* event_type).
Tag(listener, bind_name, default_key, default_mod, event_type) ==
    <<listener, bind_name, default_key, default_mod, event_type>>

\* _capture_method on the registries of one listener, st = [kb, cl, clb, ac]: the
\* bind is generated, then (method, cls) is appended under (bind name, event type),
\* the bind name under the method and the method under the class.
CaptureMethod(st, cls, method, tag) ==
    LET event_sets == DGet(st.cl, tag[2], <<>>)
        pairs == DGet(event_sets, tag[5], <<>>)
    IN  [st EXCEPT
            !.kb = GenerateBind(st.kb, tag[2], tag[3], tag[4]),
            !.cl = DPut(st.cl, tag[2], DPut(event_sets, tag[5], Append(pairs, <<method, cls>>))),
            !.clb = DPut(st.clb, method, Append(DGet(st.clb, method, <<>>), tag[2])),
            !.ac = DPut(st.ac, cls, Append(DGet(st.ac, cls, <<>>), method))]

\* The indexes _verify_listener collects with every entry of the listener captured
\* (the loop without its break).
IndexesAllOwn(self, listeners) == {i \in 1 .. Len(listeners) : listeners[i][1] = self}

\* The indexes _verify_listener collects when it does not compare the listener.
IndexesFirstAny(self, listeners) == IF listeners = <<>> THEN {} ELSE {1}

\* The indexes _verify_listener collects in _indexes_to_remove: the loop breaks
\* after the first entry whose listener is self.
IndexesToRemove(self, listeners) ==
    LET own == {i \in 1 .. Len(listeners) : listeners[i][1] = self}
    IN  IF own = {} THEN {} ELSE {CHOOSE i \in own : \A j \in own : i <= j}

\* The elements of a list at the given indexes, in list order.
RECURSIVE Pick(_, _, _)
Pick(l, idx, i) ==
    IF i > Len(l) THEN <<>>
    ELSE (IF i \in idx THEN <<l[i]>> ELSE <<>>) \o Pick(l, idx, i + 1)

RECURSIVE CaptureAll(_, _, _, _)
CaptureAll(st, cls, method, tags) ==
    IF tags = <<>> THEN st
    ELSE CaptureAll(CaptureMethod(st, cls, method, tags[1]), cls, method, Tail(tags))

\* The marker test of register_class turned round: the attribute is deleted while
\* entries are left.
KeepMarkerAlwaysFalse(left) == FALSE

\* register_class deletes the attribute when the list is empty after the listener's
\* entries were popped: whether the method keeps its marker.
KeepMarker(left) == Len(left) # 0

\* One pass of the loop of register_class over cls.__dict__, on
\* st = [kb, cl, clb, ac, mk, al]: _verify_listener captures the collected entries
\* and pops them.
RECURSIVE RegisterMethods(_, _, _, _)
RegisterMethods(self, cls, methods, st) ==
    IF methods = <<>> THEN st
    ELSE LET method == methods[1]
             listeners == st.al[method]
             idx == IndexesToRemove(self, listeners)
             captured == CaptureAll(st, cls, method, Pick(listeners, idx, 1))
             left == Pick(listeners, (1 .. Len(listeners)) \ idx, 1)
             next == IF ~st.mk[method] THEN st
                     ELSE [captured EXCEPT !.al[method] = left,
                                           !.mk[method] = KeepMarker(left)]
         IN  RegisterMethods(self, cls, Tail(methods), next)

\* ----------------------------------------------- KeyListener: deregistration

\* unbind_method with the filter turned round: the method's pairs are the ones kept.
FilterOutKeepsMethod(pairs, method) == SelectSeq(pairs, LAMBDA p : p[1] = method)

\* The filter of unbind_method: the pairs whose method is not the one unbound.
FilterOut(pairs, method) == SelectSeq(pairs, LAMBDA p : p[1] # method)

RECURSIVE UnbindNames(_, _, _)
UnbindNames(cl, bind_names, method) ==
    IF bind_names = <<>> THEN cl
    ELSE LET event_sets == DGet(cl, bind_names[1], <<>>)
             filtered == [i \in 1 .. Len(event_sets) |->
                             <<event_sets[i][1], FilterOut(event_sets[i][2], method)>>]
         IN  UnbindNames(DPut(cl, bind_names[1], filtered), Tail(bind_names), method)

\* unbind_method on [cl, clb]: the method's pairs are filtered out of every event
\* type of every bind name recorded for it, then the method is popped from the
\* index, which raises KeyError when it is not there.
UnbindMethod(cl, clb, method) ==
    [cl |-> UnbindNames(cl, DGet(clb, method, <<>>), method),
     clb |-> DPop(clb, method),
     raised |-> IF DHas(clb, method) THEN "" ELSE "KeyError"]

\* The loop of deregister_class over the methods recorded for the class: it stops
\* at the first unbind_method that raises.
RECURSIVE UnbindEach(_, _)
UnbindEach(st, methods) ==
    IF methods = <<>> \/ st.raised # "" THEN st
    ELSE UnbindEach(UnbindMethod(st.cl, st.clb, methods[1]), Tail(methods))

\* list.remove(x): the list without the first occurrence of x.
RECURSIVE RemoveFirst(_, _)
RemoveFirst(list, x) ==
    IF list = <<>> THEN <<>>
    ELSE IF list[1] = x THEN Tail(list)
    ELSE <<list[1]>> \o RemoveFirst(Tail(list), x)

\* unbind(func, bind_name) on the event-type dict of the bind name: the loop over
\* the lists returns at the first list that does not hold func.
RECURSIVE UnbindNamed(_, _)
UnbindNamed(bind_dict, func) ==
    IF bind_dict = <<>> THEN <<>>
    ELSE IF ~InList(bind_dict[1][2], func) THEN bind_dict
    ELSE << <<bind_dict[1][1], RemoveFirst(bind_dict[1][2], func)>> >>
         \o UnbindNamed(Tail(bind_dict), func)

\* unbind(func) with the callable removed from the first bind name only.
UnbindEverywhereFirstName(kh, func) ==
    [i \in 1 .. Len(kh) |->
        <<kh[i][1],
          [j \in 1 .. Len(kh[i][2]) |->
              <<kh[i][2][j][1],
                IF i = 1 /\ InList(kh[i][2][j][2], func)
                THEN RemoveFirst(kh[i][2][j][2], func) ELSE kh[i][2][j][2]>>]>>]

\* unbind(func) with no bind name: func is removed from every list that holds it.
UnbindEverywhere(kh, func) ==
    [i \in 1 .. Len(kh) |->
        <<kh[i][1],
          [j \in 1 .. Len(kh[i][2]) |->
              <<kh[i][2][j][1],
                IF InList(kh[i][2][j][2], func)
                THEN RemoveFirst(kh[i][2][j][2], func) ELSE kh[i][2][j][2]>>]>>]

\* ------------------------------------------------------ KeyListener: notify

\* The modifier test of notify with the mask comparison left out: any event that
\* carries a modifier passes.
MatchesAnyModifier(bind_mod, mod_keys) == bind_mod = None \/ mod_keys # None

\* The modifier test of notify: the bind is skipped unless this holds.
Matches(bind_mod, mod_keys) ==
    \/ bind_mod = None
    \/ (mod_keys # None /\ BitAnd(bind_mod, mod_keys) # 0)

\* The elements of a set of instance ids as a sequence (a WeakSet has no order of
\* its own; ascending ids are used).
RECURSIVE SetToSeq(_)
SetToSeq(S) ==
    IF S = {} THEN <<>>
    ELSE LET x == CHOOSE y \in S : \A z \in S : y <= z IN <<x>> \o SetToSeq(S \ {x})

\* A thread started by notify: the callable, the instance it is called on (0 for a
\* free callable) and the bind through which it was reached.
Thread(via, fn, inst) == [via |-> via, fn |-> fn, inst |-> inst]

RECURSIVE MethodThreads(_, _, _)
MethodThreads(via, pairs, instances) ==
    IF pairs = <<>> THEN <<>>
    ELSE LET ids == SetToSeq(DGet(instances, pairs[1][2], {}))
         IN  [i \in 1 .. Len(ids) |-> Thread(via, pairs[1][1], ids[i])]
             \o MethodThreads(via, Tail(pairs), instances)

\* The callables of the scenarios whose body raises when it is called.
Raises == {"g"}

\* The callables reached when each is called in place instead of on a thread of
\* its own: the first one that raises ends the loop.
BindThreadsInline(kh, cl, instances, key_bind, mod_keys, event_type) ==
    IF ~Matches(key_bind.mod, mod_keys) THEN <<>>
    ELSE LET responders == DGet(DGet(kh, key_bind.bind_name, <<>>), event_type, <<>>)
             listeners == DGet(DGet(cl, key_bind.bind_name, <<>>), event_type, <<>>)
             all == [i \in 1 .. Len(responders) |->
                        Thread(key_bind.bind_name, responders[i], 0)]
                    \o MethodThreads(key_bind.bind_name, listeners, instances)
             bad == {i \in 1 .. Len(all) : all[i].fn \in Raises}
         IN  IF bad = {} THEN all
             ELSE SubSeq(all, 1, CHOOSE i \in bad : \A j \in bad : i <= j)

\* The threads notify starts for one bind of the event's key.
BindThreads(kh, cl, instances, key_bind, mod_keys, event_type) ==
    IF ~Matches(key_bind.mod, mod_keys) THEN <<>>
    ELSE LET responders == DGet(DGet(kh, key_bind.bind_name, <<>>), event_type, <<>>)
             listeners == DGet(DGet(cl, key_bind.bind_name, <<>>), event_type, <<>>)
         IN  [i \in 1 .. Len(responders) |-> Thread(key_bind.bind_name, responders[i], 0)]
             \o MethodThreads(key_bind.bind_name, listeners, instances)

RECURSIVE NotifyThreads(_, _, _, _, _, _)
NotifyThreads(kh, cl, instances, key_binds_of_key, mod_keys, event_type) ==
    IF key_binds_of_key = <<>> THEN <<>>
    ELSE BindThreads(kh, cl, instances, key_binds_of_key[1], mod_keys, event_type)
         \o NotifyThreads(kh, cl, instances, Tail(key_binds_of_key), mod_keys, event_type)

\* ------------------------------------------------------------ EventManager

\* Every list of the EventManagers that the code lets grow stays within MaxLen.
EMBounded(m) ==
    /\ \A method \in Methods : Len(m.assigned_managers[method]) <= MaxLen
    /\ \A c \in Classes : Len(m.init_wrappers[c]) <= MaxLen
    /\ \A g \in Managers :
          /\ AllShort(m.listeners[g])
          /\ AllShort(m.class_listeners[g])
          /\ AllShort(m.class_listener_events[g])
          /\ AllShort(m.assigned_classes[g])

\* EventManager._capture_method on the registries of one manager, st = [cl, cle,
\* ac]: the appends are made whatever the lists hold already.
EMCaptureMethod(st, cls, method, event_type) ==
    [st EXCEPT
        !.cl = DPut(st.cl, event_type, Append(DGet(st.cl, event_type, <<>>), <<method, cls>>)),
        !.cle = DPut(st.cle, method, Append(DGet(st.cle, method, <<>>), event_type)),
        !.ac = DPut(st.ac, cls, Append(DGet(st.ac, cls, <<>>), method))]

\* One pass of the loop of EventManager.register_class over cls.__dict__, on
\* st = [cl, cle, ac, mk, al]: _verify_manager captures the first entry that names
\* the manager, pops it, and the attribute is deleted when the list is empty.
RECURSIVE EMRegisterMethods(_, _, _, _)
EMRegisterMethods(self, cls, methods, st) ==
    IF methods = <<>> THEN st
    ELSE LET method == methods[1]
             managers == st.al[method]
             idx == IndexesToRemove(self, managers)
             picked == Pick(managers, idx, 1)
             captured == IF picked = <<>> THEN st
                         ELSE EMCaptureMethod(st, cls, method, picked[1][2])
             left == Pick(managers, (1 .. Len(managers)) \ idx, 1)
             next == IF ~st.mk[method] THEN st
                     ELSE [captured EXCEPT !.al[method] = left,
                                           !.mk[method] = Len(left) # 0]
         IN  EMRegisterMethods(self, cls, Tail(methods), next)

\* The wrappers of the managers on cls.__init__, run for a new instance: each
\* appends the instance to the list its manager keeps for instance.__class__.
RECURSIVE EMTrack(_, _, _, _)
EMTrack(instances, wrappers, cls, id) ==
    IF wrappers = <<>> THEN instances
    ELSE EMTrack([instances EXCEPT
                     ![wrappers[1]] = DPut(@, cls, Append(DGet(@, cls, <<>>), id))],
                 Tail(wrappers), cls, id)

\* The threads EventManager.notify starts for the (method, cls) pairs of the event
\* type: one per pair and per entry of the instance list of the class.
RECURSIVE EMMethodThreads(_, _)
EMMethodThreads(pairs, instances) ==
    IF pairs = <<>> THEN <<>>
    ELSE LET ids == DGet(instances, pairs[1][2], <<>>)
         IN  [i \in 1 .. Len(ids) |-> Thread("", pairs[1][1], ids[i])]
             \o EMMethodThreads(Tail(pairs), instances)

\* EventManager.deregister(func) with no event type, on the _listeners of one
\* manager: list.remove takes the first occurrence of func out of every list
\* that holds it.
RECURSIVE EMDeregisterAll(_, _)
EMDeregisterAll(ls, func) ==
    IF ls = <<>> THEN <<>>
    ELSE <<<<ls[1][1], IF InList(ls[1][2], func) THEN RemoveFirst(ls[1][2], func)
                       ELSE ls[1][2]>>>>
         \o EMDeregisterAll(Tail(ls), func)

\* EventManager.deregister(func, event_type): nothing happens when the event type
\* has no list or an empty one, or when func is not in it; else the first
\* occurrence of func is removed.
EMDeregisterOne(ls, func, event_type) ==
    LET call_list == DGet(ls, event_type, <<>>)
    IN  IF call_list = <<>> \/ ~InList(call_list, func) THEN ls
        ELSE DPut(ls, event_type, RemoveFirst(call_list, func))

\* purge_event with every list of the manager cleared.
EMPurgeEveryEvent(ls, event_type) == [i \in 1 .. Len(ls) |-> <<ls[i][1], <<>>>>]

\* EventManager.purge_event(event_type) on the _listeners of one manager: the
\* list of the event type is cleared in place; without a list, or with an empty
\* one, only a warning is logged.
EMPurge(ls, event_type) ==
    IF DGet(ls, event_type, <<>>) = <<>> THEN ls ELSE DPut(ls, event_type, <<>>)

\* An instance some manager holds in one of its lists.
HeldByManager(m, id) ==
    \E g \in Managers :
        \E i \in 1 .. Len(m.class_listener_instances[g]) :
            InList(m.class_listener_instances[g][i][2], id)

\* ------------------------------------------------------------- BaseManager

\* sequential with the removal of the other mark left out.
MarkSequentialKeepsOther(marks) == [marks EXCEPT !.sequential = TRUE]

\* The marks of a callable after BaseManager.sequential: _runs_concurrent is
\* deleted when present, _runs_sequential is set.
MarkSequential(marks) ==
    [[marks EXCEPT !.concurrent = IF @ THEN FALSE ELSE @] EXCEPT !.sequential = TRUE]

\* The marks of a callable after BaseManager.concurrent: _runs_sequential is
\* deleted when present, _runs_concurrent is set.
MarkConcurrent(marks) ==
    [[marks EXCEPT !.sequential = IF @ THEN FALSE ELSE @] EXCEPT !.concurrent = TRUE]

\* ---------------------------------------------------------------- actions

\* KeyListener._generate_bind(n, k, m), as bind(n, k, m) runs it before it returns
\* the decorator.
Generate(l, n, k, m) ==
    /\ key_binds' = GenerateBind(key_binds, n, k, m)
    /\ UNCHANGED <<noted, em, runs, dispatch>>
    /\ started' = <<>>
    /\ last' = Call("generate", l, n, k, m, 0, "", <<>>, "")
    /\ UNCHANGED <<regVars, tagVars, objVars>>

\* KeyListener.bind(n, k, m, e)(f)
Bind(l, n, k, m, e, f) ==
    /\ key_binds' = GenerateBind(key_binds, n, k, m)
    /\ key_hooks' = [key_hooks EXCEPT ![l] = HookAdd(@, n, e, f)]
    /\ UNCHANGED <<noted, em, runs, dispatch>>
    /\ started' = <<>>
    /\ last' = Call("bind", l, n, k, m, e, f, <<>>, "")
    /\ UNCHANGED <<class_listeners, class_listener_binds, assigned_classes, tagVars,
                   objVars>>

\* KeyMap.rebind(KeyBind(n, m), k) on the shared table
MapRebindStep(n, m, k) ==
    /\ key_binds' = KeyMapRebind(key_binds, KeyBind(n, m), k)
    /\ started' = <<>>
    /\ UNCHANGED <<em, runs, dispatch>>
    /\ last' = Call("map_rebind", "", n, k, m, 0, "", <<>>, "")
    /\ UNCHANGED <<regVars, tagVars, objVars>>

\* KeyMap.remove_bind(n, k) on the shared table
MapRemove(n, k) ==
    /\ key_binds' = KeyMapRemoveBind(key_binds, n, k)
    /\ UNCHANGED <<noted, em, runs, dispatch>>
    /\ started' = <<>>
    /\ last' = Call("map_remove", "", n, k, None, 0, "", <<>>, "")
    /\ UNCHANGED <<regVars, tagVars, objVars>>

\* KeyMap.pack_binds() on the shared table, followed by
\* JSONParser._unpack_binds on what it returned; the record of the call keeps the
\* packed dict as the result and the unpacked one in its place of the old value.
PackUnpack ==
    /\ started' = <<>>
    /\ last' = [Call("pack_unpack", "", "", None, None, 0, "", PackBinds(key_binds), "")
                  EXCEPT !.old = UnpackBinds(PackBinds(key_binds))]
    /\ UNCHANGED <<mapVars, regVars, tagVars, objVars, noted, em, runs, dispatch>>

\* KeyListener.load_from_file: key_map.merge(other)
Merge(other) ==
    /\ key_binds' = KeyMapMerge(key_binds, other)
    /\ UNCHANGED <<noted, em, runs, dispatch>>
    /\ started' = <<>>
    /\ last' = Call("merge", "", "", None, None, 0, "", other, "")
    /\ UNCHANGED <<regVars, tagVars, objVars>>

\* KeyListener.rebind(n, k, m): a found bind is truthy, so the call warns and
\* returns None; otherwise KeyMap.rebind runs and the (None) lookup is returned.
Rebind(l, n, k, m) ==
    LET old_bind == get_bound_key(key_binds, n)
    IN  /\ key_binds' = IF old_bind # <<>> THEN key_binds
                        ELSE KeyMapRebind(key_binds, KeyBind(n, m), k)
        /\ UNCHANGED <<noted, em, runs, dispatch>>
        /\ started' = <<>>
        /\ last' = Call("rebind", l, n, k, m, 0, "",
                        IF old_bind # <<>> THEN <<>> ELSE old_bind, "")
        /\ UNCHANGED <<regVars, tagVars, objVars>>

\* KeyMap.get_bound_key(n) on the shared table: the (key, mod) of the first entry
\* named n, or None; nothing is raised.
GetBoundKey(n) ==
    /\ UNCHANGED <<noted, em, runs, dispatch>>
    /\ started' = <<>>
    /\ last' = Call("get_bound_key", "", n, None, None, 0, "", get_bound_key(key_binds, n), "")
    /\ UNCHANGED <<mapVars, regVars, tagVars, objVars>>

\* KeyListener.bind_method(n, k, m, e)(method)
BindMethodStep(l, n, k, m, e, method) ==
    /\ assigned_listeners' =
           [assigned_listeners EXCEPT
               ![method] = Append(IF has_marker[method] THEN @ ELSE <<>>, Tag(l, n, k, m, e))]
    /\ has_marker' = [has_marker EXCEPT ![method] = TRUE]
    /\ started' = <<>>
    /\ UNCHANGED <<em, runs, dispatch>>
    /\ last' = Call("bind_method", l, n, k, m, e, method, <<>>, "")
    /\ UNCHANGED <<mapVars, regVars, objVars>>
    /\ Bounded'

\* KeyListener.register_class(cls)
RegisterClassStep(l, cls) ==
    LET st == RegisterMethods(l, cls, ClassDict(cls),
                  [kb |-> key_binds, cl |-> class_listeners[l],
                   clb |-> class_listener_binds[l], ac |-> assigned_classes[l],
                   mk |-> has_marker, al |-> assigned_listeners])
    IN  /\ init_wrappers' = [init_wrappers EXCEPT ![cls] = Append(@, l)]
        /\ key_binds' = st.kb
        /\ class_listeners' = [class_listeners EXCEPT ![l] = st.cl]
        /\ class_listener_binds' = [class_listener_binds EXCEPT ![l] = st.clb]
        /\ assigned_classes' = [assigned_classes EXCEPT ![l] = st.ac]
        /\ has_marker' = st.mk
        /\ assigned_listeners' = st.al
        /\ started' = <<>>
        /\ UNCHANGED <<em, runs, dispatch>>
        /\ last' = Call("register_class", l, "", None, None, 0, cls, <<>>, "")
        /\ UNCHANGED <<key_hooks, class_listener_instances, objects>>
        /\ Bounded'

\* cls(): every wrapper installed on cls.__init__ adds the new instance to the
\* WeakSet its listener keeps, or to the list its manager keeps, for
\* instance.__class__, then the initializer runs.
\* cls() when every register_class replaces the initializer with a wrapper of the
\* original one: only the listener that registered last sees the instance.
TrackOutermostOnly(instances, wrappers, cls, id) ==
    IF wrappers = <<>> THEN instances
    ELSE [instances EXCEPT
             ![wrappers[Len(wrappers)]] = DPut(@, cls, DGet(@, cls, {}) \cup {id})]

RECURSIVE Track(_, _, _, _)
Track(instances, wrappers, cls, id) ==
    IF wrappers = <<>> THEN instances
    ELSE Track([instances EXCEPT
                   ![wrappers[1]] = DPut(@, cls, DGet(@, cls, {}) \cup {id})],
               Tail(wrappers), cls, id)

\* How often the original initializer runs in one construction: every wrapper
\* calls the initializer it wraps once, and the innermost one is the original.
RECURSIVE RunInit(_)
RunInit(wrappers) == IF wrappers = <<>> THEN 1 ELSE RunInit(Tail(wrappers))

Construct(cls) ==
    /\ Len(objects) < MaxInst
    /\ objects' = Append(objects, cls)
    /\ class_listener_instances' =
           Track(class_listener_instances, init_wrappers[cls], cls, Len(objects) + 1)
    /\ em' = [em EXCEPT !.class_listener_instances =
                            EMTrack(@, em.init_wrappers[cls], cls, Len(objects) + 1)]
    /\ UNCHANGED <<noted, runs, dispatch>>
    /\ started' = <<>>
    /\ last' = Call("construct", "", "", Len(objects) + 1, None, 0, cls,
                    <<RunInit(init_wrappers[cls] \o em.init_wrappers[cls])>>, "")
    /\ UNCHANGED <<mapVars, regVars, tagVars, init_wrappers>>

\* sub(), for a class sub that derives from base, defines no initializer and is
\* registered with nobody: base.__init__ runs as it is wrapped at the time, and
\* each wrapper files the instance under instance.__class__, which is sub.
ConstructSubclass(sub, base) ==
    /\ Len(objects) < MaxInst
    /\ objects' = Append(objects, sub)
    /\ class_listener_instances' =
           Track(class_listener_instances, init_wrappers[base], sub, Len(objects) + 1)
    /\ em' = [em EXCEPT !.class_listener_instances =
                            EMTrack(@, em.init_wrappers[base], sub, Len(objects) + 1)]
    /\ UNCHANGED <<noted, runs, dispatch>>
    /\ started' = <<>>
    /\ last' = Call("construct", "", "", Len(objects) + 1, None, 0, sub,
                    <<RunInit(init_wrappers[base] \o em.init_wrappers[base])>>, "")
    /\ UNCHANGED <<mapVars, regVars, tagVars, init_wrappers>>

\* The application drops its last reference to instance id. An instance that no
\* manager holds in a list is reclaimed and leaves every WeakSet; one that a
\* manager holds stays alive, in the lists and in the WeakSets.
Drop(id) ==
    /\ id \in 1 .. Len(objects)
    /\ objects[id] # "dead"
    /\ id \notin em.released
    /\ IF HeldByManager(em, id)
       THEN /\ em' = [em EXCEPT !.released = @ \cup {id}]
            /\ UNCHANGED <<objects, class_listener_instances>>
       ELSE /\ objects' = [objects EXCEPT ![id] = "dead"]
            /\ class_listener_instances' =
                   [l \in Listeners |->
                       [i \in 1 .. Len(class_listener_instances[l]) |->
                           <<class_listener_instances[l][i][1],
                             class_listener_instances[l][i][2] \ {id}>>]]
            /\ UNCHANGED em
    /\ UNCHANGED <<noted, runs, dispatch>>
    /\ started' = <<>>
    /\ last' = Call("drop", "", "", id, None, 0, "", <<>>, "")
    /\ UNCHANGED <<mapVars, regVars, tagVars, init_wrappers>>

\* KeyListener.unbind_method(method)
UnbindMethodCall(l, method) ==
    LET r == UnbindMethod(class_listeners[l], class_listener_binds[l], method)
    IN  /\ class_listeners' = [class_listeners EXCEPT ![l] = r.cl]
        /\ class_listener_binds' = [class_listener_binds EXCEPT ![l] = r.clb]
        /\ UNCHANGED <<noted, em, runs, dispatch>>
        /\ started' = <<>>
        /\ last' = Call("unbind_method", l, "", None, None, 0, method, <<>>, r.raised)
        /\ UNCHANGED <<mapVars, key_hooks, assigned_classes, tagVars, objVars>>

\* KeyListener.unbind(func, bind_name); bind_name "" stands for None. A name with
\* no dict or an empty one only warns.
Unbind(l, func, bind_name) ==
    /\ key_hooks' =
           [key_hooks EXCEPT
               ![l] = IF bind_name = "" THEN UnbindEverywhere(@, func)
                      ELSE IF DGet(@, bind_name, <<>>) = <<>> THEN @
                      ELSE DPut(@, bind_name, UnbindNamed(DGet(@, bind_name, <<>>), func))]
    /\ UNCHANGED <<noted, em, runs, dispatch>>
    /\ started' = <<>>
    /\ last' = Call("unbind", l, bind_name, None, None, 0, func, <<>>, "")
    /\ UNCHANGED <<mapVars, class_listeners, class_listener_binds, assigned_classes,
                   tagVars, objVars>>

\* KeyListener.deregister_class(cls): the instance bucket is popped, every method
\* recorded for the class is unbound, then the class is popped from
\* _assigned_classes, which raises KeyError when it has no entry.
DeregisterClassStep(l, cls) ==
    LET r == UnbindEach([cl |-> class_listeners[l], clb |-> class_listener_binds[l],
                         raised |-> ""],
                        DGet(assigned_classes[l], cls, <<>>))
        popped == r.raised = "" /\ DHas(assigned_classes[l], cls)
    IN  /\ class_listener_instances' = [class_listener_instances EXCEPT ![l] = DPop(@, cls)]
        /\ class_listeners' = [class_listeners EXCEPT ![l] = r.cl]
        /\ class_listener_binds' = [class_listener_binds EXCEPT ![l] = r.clb]
        /\ assigned_classes' = IF popped THEN [assigned_classes EXCEPT ![l] = DPop(@, cls)]
                               ELSE assigned_classes
        /\ started' = <<>>
        /\ UNCHANGED <<em, runs, dispatch>>
        /\ last' = Call("deregister_class", l, "", None, None, 0, cls, <<>>,
                        IF popped THEN "" ELSE "KeyError")
        /\ UNCHANGED <<mapVars, key_hooks, tagVars, init_wrappers, objects>>

\* clear_bind with the clear() left out.
ClearedNothing(d, n) == d

\* clear_bind on one registry: the event-type dict of the bind name is emptied in
\* place when the name has one.
Cleared(d, n) == IF DHas(d, n) THEN DPut(d, n, <<>>) ELSE d

\* KeyListener.clear_bind(n, eliminate_bind)
ClearBind(l, n, eliminate_bind) ==
    LET call_list == DGet(key_hooks[l], n, <<>>)
        class_call_list == DGet(class_listeners[l], n, <<>>)
    IN  /\ IF eliminate_bind
           THEN /\ key_hooks' = [key_hooks EXCEPT ![l] = DPop(@, n)]
                /\ key_binds' = IF DHas(key_hooks[l], n)
                                THEN KeyMapRemoveBind(key_binds, n, None)
                                ELSE key_binds
                /\ UNCHANGED class_listeners
           ELSE /\ key_hooks' = [key_hooks EXCEPT ![l] = Cleared(@, n)]
                /\ class_listeners' = [class_listeners EXCEPT ![l] = Cleared(@, n)]
                /\ UNCHANGED key_binds
        /\ UNCHANGED <<noted, em, runs, dispatch>>
        /\ started' = <<>>
        /\ last' = Call(IF eliminate_bind THEN "eliminate_bind" ELSE "clear_bind",
                        l, n, None, None, 0, "", <<>>, "")
        /\ UNCHANGED <<class_listener_binds, assigned_classes, tagVars, objVars>>

\* KeyListener.notify(event), event = (type e, key, mod); key or mod is None when
\* the event carries no such attribute.
Notify(l, e, key, mod) ==
    /\ UNCHANGED <<noted, em, runs, dispatch>>
    /\ started' = NotifyThreads(key_hooks[l], class_listeners[l],
                                class_listener_instances[l],
                                DGet(key_binds, key, <<>>), mod, e)
    /\ last' = Call("notify", l, "", key, mod, e, "", <<>>, "")
    /\ UNCHANGED <<mapVars, regVars, tagVars, objVars>>

\* Everything of the KeyListeners, and the instances.
listenerVars == <<mapVars, regVars, tagVars, objVars>>

\* The loop over the responders reading a copy of the list made when the loop
\* began.
IteratedSnapshot(d, kh) == d.snapshot

\* The list the loop `for responder in responders` of a running notify reads at
\* each step: the list object held by _key_hooks, as it is at that moment.
IteratedResponders(d, kh) == DGet(DGet(kh[d.who], d.name, <<>>), d.etype, <<>>)

\* KeyListener.notify(event) is entered: the event's key and modifier are read
\* and the list of binds of the key is fetched.
NotifyEnter(l, e, key, mod) ==
    /\ dispatch.phase \in {"idle", "done"}
    /\ dispatch' = [Idle EXCEPT !.phase = "binds", !.who = l, !.etype = e, !.key = key,
                                !.mod = mod, !.hooks = key_hooks[l]]
    /\ started' = <<>>
    /\ last' = Call("notify_enter", l, "", key, mod, e, "", <<>>, "")
    /\ UNCHANGED <<listenerVars, noted, em, runs>>

\* One step of the running notify: the next bind of the key is taken and its
\* modifier tested, or the next responder of the bind is started, or the threads
\* of the next (method, cls) pair are started, or notify returns. A list that
\* does not exist when the bind is reached is a fresh empty one.
NotifyStep ==
    LET d == dispatch
        key_binds_of_key == DGet(key_binds, d.key, <<>>)
        responders == IteratedResponders(d, key_hooks)
        listeners == DGet(DGet(class_listeners[d.who], d.name, <<>>), d.etype, <<>>)
    IN  /\ d.phase \in {"binds", "responders", "methods"}
        /\ IF d.phase = "binds" /\ d.b > Len(key_binds_of_key)
           THEN /\ dispatch' = [d EXCEPT !.phase = "done"]
                /\ started' = d.started
                /\ last' = Call("notify", d.who, "", d.key, d.mod, d.etype, "", <<>>, "")
           ELSE /\ UNCHANGED <<started, last>>
                /\ dispatch' =
                      IF d.phase = "binds"
                      THEN LET key_bind == key_binds_of_key[d.b]
                               hooks == DGet(key_hooks[d.who], key_bind.bind_name, <<>>)
                           IN  IF ~Matches(key_bind.mod, d.mod)
                               THEN [d EXCEPT !.b = @ + 1]
                               ELSE [d EXCEPT
                                        !.name = key_bind.bind_name,
                                        !.i = 1,
                                        !.snapshot = DGet(hooks, d.etype, <<>>),
                                        !.phase = IF DHas(hooks, d.etype)
                                                  THEN "responders" ELSE "methods"]
                      ELSE IF d.phase = "responders"
                      THEN IF d.i > Len(responders)
                           THEN [d EXCEPT !.phase = "methods", !.i = 1]
                           ELSE [d EXCEPT
                                    !.started = Append(@, Thread(d.name, responders[d.i], 0)),
                                    !.i = @ + 1]
                      ELSE IF d.i > Len(listeners)
                           THEN [d EXCEPT !.phase = "binds", !.b = @ + 1]
                           ELSE [d EXCEPT
                                    !.started = @ \o MethodThreads(d.name, <<listeners[d.i]>>,
                                                     class_listener_instances[d.who]),
                                    !.i = @ + 1]
        /\ UNCHANGED <<listenerVars, noted, em, runs>>

\* EventManager.register(event_type)(listener)
EMRegister(g, event_type, listener) ==
    /\ em' = [em EXCEPT !.listeners[g] =
                            DPut(@, event_type, Append(DGet(@, event_type, <<>>), listener))]
    /\ EMBounded(em')
    /\ started' = <<>>
    /\ last' = Call("em_register", g, "", None, None, event_type, listener, <<>>, "")
    /\ UNCHANGED <<listenerVars, noted, runs, dispatch>>

\* EventManager.register_method(event_type)(method)
EMRegisterMethod(g, event_type, method) ==
    /\ em' = [em EXCEPT
                 !.assigned_managers[method] =
                     Append(IF em.has_managers[method] THEN @ ELSE <<>>, <<g, event_type>>),
                 !.has_managers[method] = TRUE]
    /\ EMBounded(em')
    /\ started' = <<>>
    /\ last' = Call("em_register_method", g, "", None, None, event_type, method, <<>>, "")
    /\ UNCHANGED <<listenerVars, noted, runs, dispatch>>

\* EventManager.register_class(cls)
EMRegisterClass(g, cls) ==
    LET st == EMRegisterMethods(g, cls, ClassDict(cls),
                  [cl |-> em.class_listeners[g], cle |-> em.class_listener_events[g],
                   ac |-> em.assigned_classes[g], mk |-> em.has_managers,
                   al |-> em.assigned_managers])
    IN  /\ em' = [em EXCEPT !.init_wrappers[cls] = Append(@, g),
                            !.class_listeners[g] = st.cl,
                            !.class_listener_events[g] = st.cle,
                            !.assigned_classes[g] = st.ac,
                            !.has_managers = st.mk,
                            !.assigned_managers = st.al]
        /\ EMBounded(em')
        /\ started' = <<>>
        /\ last' = Call("em_register_class", g, "", None, None, 0, cls, <<>>, "")
        /\ UNCHANGED <<listenerVars, noted, runs, dispatch>>

\* EventManager.deregister(func, event_type); event_type None stands for the
\* call without an event type.
EMDeregister(g, func, event_type) ==
    /\ em' = [em EXCEPT !.listeners[g] =
                            IF event_type # None THEN EMDeregisterOne(@, func, event_type)
                            ELSE EMDeregisterAll(@, func)]
    /\ started' = <<>>
    /\ last' = Call("em_deregister", g, "", None, None, event_type, func, <<>>, "")
    /\ UNCHANGED <<listenerVars, noted, runs, dispatch>>

\* EventManager.purge_event(event_type)
EMPurgeEvent(g, event_type) ==
    /\ em' = [em EXCEPT !.listeners[g] = EMPurge(@, event_type)]
    /\ started' = <<>>
    /\ last' = Call("em_purge_event", g, "", None, None, event_type, "", <<>>, "")
    /\ UNCHANGED <<listenerVars, noted, runs, dispatch>>

\* EventManager.deregister_class(cls): the body is the docstring alone.
EMDeregisterClass(g, cls) ==
    /\ started' = <<>>
    /\ last' = Call("em_deregister_class", g, "", None, None, 0, cls, <<>>, "")
    /\ UNCHANGED <<listenerVars, noted, em, runs, dispatch>>

\* EventManager.deregister_method(method): the body is the docstring alone.
EMDeregisterMethod(g, method) ==
    /\ started' = <<>>
    /\ last' = Call("em_deregister_method", g, "", None, None, 0, method, <<>>, "")
    /\ UNCHANGED <<listenerVars, noted, em, runs, dispatch>>

\* EventManager.notify(event), event of type event_type
EMNotify(g, event_type) ==
    LET listeners == DGet(em.listeners[g], event_type, <<>>)
        methods == DGet(em.class_listeners[g], event_type, <<>>)
    IN  /\ started' = [i \in 1 .. Len(listeners) |-> Thread("", listeners[i], 0)]
                       \o EMMethodThreads(methods, em.class_listener_instances[g])
        /\ last' = Call("em_notify", g, "", None, None, event_type, "", <<>>, "")
        /\ UNCHANGED <<listenerVars, noted, em, runs, dispatch>>

\* BaseManager.sequential(func); it returns func. The record of the call keeps
\* the marks func carried before it.
Sequential(func) ==
    /\ runs' = [runs EXCEPT ![func] = MarkSequential(@)]
    /\ started' = <<>>
    /\ last' = [Call("sequential", "", "", None, None, 0, func, <<func>>, "")
                  EXCEPT !.old = <<runs[func].sequential, runs[func].concurrent>>]
    /\ UNCHANGED <<listenerVars, noted, em, dispatch>>

\* BaseManager.concurrent(func); it returns func.
Concurrent(func) ==
    /\ runs' = [runs EXCEPT ![func] = MarkConcurrent(@)]
    /\ started' = <<>>
    /\ last' = [Call("concurrent", "", "", None, None, 0, func, <<func>>, "")
                  EXCEPT !.old = <<runs[func].sequential, runs[func].concurrent>>]
    /\ UNCHANGED <<listenerVars, noted, em, dispatch>>

\* The steps above with the history left alone.
MapRebind(n, m, k) == MapRebindStep(n, m, k) /\ UNCHANGED <<noted, em, runs, dispatch>>

BindMethod(l, n, k, m, e, method) == BindMethodStep(l, n, k, m, e, method) /\ UNCHANGED <<noted, em, runs, dispatch>>

RegisterClass(l, cls) == RegisterClassStep(l, cls) /\ UNCHANGED <<noted, em, runs, dispatch>>

DeregisterClass(l, cls) == DeregisterClassStep(l, cls) /\ UNCHANGED <<noted, em, runs, dispatch>>

\* KeyMap.rebind, remembering the bind moved and the key it came from.
MoveBind(n, m, k) ==
    /\ MapRebindStep(n, m, k)
    /\ noted' = [noted EXCEPT !.rebound = <<n, get_bound_key(key_binds, n), k>>]

\* bind_method, remembering that the listener has tagged the method and has still
\* to register its class.
TagMethod(l, n, k, m, e, method) ==
    /\ BindMethodStep(l, n, k, m, e, method)
    /\ noted' = [noted EXCEPT !.waiting = @ \cup {<<method, l>>}]

\* register_class, remembering that the listener has now registered the class of
\* the methods it tagged.
RegisterTagged(l, cls) ==
    /\ RegisterClassStep(l, cls)
    /\ noted' = [noted EXCEPT
                    !.waiting = {w \in @ : ~(w[2] = l /\ InList(ClassDict(cls), w[1]))}]

\* deregister_class, remembering the instances of the class the listener tracked
\* when it was called.
DeregisterTracked(l, cls) ==
    /\ DeregisterClassStep(l, cls)
    /\ noted' = [noted EXCEPT
                    !.dereg = @ \cup {<<l, cls, id>> :
                                         id \in DGet(class_listener_instances[l], cls, {})}]

\* ------------------------------------------------------- the bind table alone

\* Bind tables a file can hold: what save_to_file writes for a table of the program.
OtherMaps ==
    {<< <<k, <<KeyBind("b", None)>> >> >> : k \in OptKeys}
    \cup {<< <<2, <<KeyBind("a", None), KeyBind("b", 1)>> >> >>,
          << <<1, <<KeyBind("b", None)>> >>, <<None, <<KeyBind("a", 1)>> >> >>}

MapMods == {None, 1}

MapNext ==
    \/ \E n \in Names, k \in OptKeys, m \in MapMods : Generate("D", n, k, m)
    \/ \E n \in Names, k \in OptKeys, m \in MapMods : MapRebind(n, m, k)
    \/ \E n \in Names, k \in OptKeys, m \in MapMods : Rebind("D", n, k, m)
    \/ \E n \in Names, k \in OptKeys : MapRemove(n, k)
    \/ \E other \in OtherMaps : Merge(other)
    \/ \E n \in Names : GetBoundKey(n)

SpecMap == Init /\ [][MapNext]_vars

\* The entries of a table that carry the name n, as (key, KeyBind) pairs in order.
EntriesOf(kb, n) == SelectSeq(Items(kb), LAMBDA e : e[2].bind_name = n)

\* C8: for a bind name not yet in the table, generate(n, t, m) makes get_bound(n)
\* return (t, m), None included; a generate for a name already in the table
\* leaves get_bound(n) as it was; either way n has exactly one entry afterwards.
C8_GenerateIdempotent ==
    last.op = "generate" =>
        /\ get_bound_key(key_binds, last.name) =
               (IF last.old = <<>> THEN <<last.key, last.mod>> ELSE last.old)
        /\ Len(EntriesOf(key_binds, last.name)) = 1

\* A second generate with other defaults met a bind stored under (None, None).
C8_Witness ==
    /\ last.op = "generate"
    /\ last.old = <<None, None>>
    /\ last.key # None
    /\ last.mod # None

\* C9: KeyMap.rebind(b, t2) leaves exactly one entry named b.name, the last one of
\* the list of t2, so get_bound(b.name) = (t2, b.mod); the entries of every other
\* bind name are the ones they were.
C9_MapRebind ==
    [][last'.op = "map_rebind" =>
          LET n == last'.name
              under == DGet(key_binds', last'.key, <<>>)
          IN  /\ get_bound_key(key_binds', n) = <<last'.key, last'.mod>>
              /\ Len(EntriesOf(key_binds', n)) = 1
              /\ under # <<>>
              /\ under[Len(under)] = KeyBind(n, last'.mod)
              /\ \A o \in Names \ {n} : EntriesOf(key_binds', o) = EntriesOf(key_binds, o)
      ]_vars

\* A rebind moved a bind to another key, away from a key it shared with the other
\* bind, which is still there.
C9_Witness ==
    /\ last.op = "map_rebind"
    /\ last.old # <<>>
    /\ last.old[1] # last.key
    /\ \E o \in Names \ {last.name} :
          /\ get_bound_key(key_binds, o) # <<>>
          /\ get_bound_key(key_binds, o)[1] = last.old[1]

\* C10: KeyListener.rebind(n, new_key, new_mod) for a bind name in the table moves
\* n to new_key with new_mod and returns the (key, mod) pair n had before.
C10_ListenerRebindMoves ==
    (last.op = "rebind" /\ last.old # <<>>) =>
        /\ get_bound_key(key_binds, last.name) = <<last.key, last.mod>>
        /\ last.ret = last.old

\* C11: KeyListener.rebind(n, new_key, new_mod) for a bind name n that is not in the
\* table only warns: it returns None and leaves the bind table unchanged, so no
\* bind named n is created.
C11_RebindUnknownName ==
    [][(last'.op = "rebind" /\ last'.old = <<>>) =>
          /\ last'.ret = <<>>
          /\ key_binds' = key_binds
          /\ get_bound_key(key_binds', last'.name) = <<>>
      ]_vars

\* C12: get_bound(name) for a name that is not in the bind table fails with a
\* not-found error (ValueError) instead of returning a value, and leaves the table
\* unchanged.
C12_GetBoundUnknown ==
    [][(last'.op = "get_bound_key" /\ last'.old = <<>>) =>
          /\ last'.raised = "ValueError"
          /\ key_binds' = key_binds
      ]_vars

C14_MergeOtherWins ==
    [][last'.op = "merge" =>
          \A n \in Names :
              LET mine == get_bound_key(key_binds, n)
                  theirs == get_bound_key(last'.ret, n)
                  found == get_bound_key(key_binds', n)
              IN  /\ (mine # <<>> \/ theirs # <<>>) => found # <<>>
                  /\ (mine # <<>> /\ theirs = <<>>) => found[1] = mine[1]
                  /\ theirs # <<>> => found[1] = theirs[1]
      ]_vars

\* ------------------------------------------- remove_bind on a loaded table

\* The lists a key of a loaded table can hold.
LoadedLists ==
    {<<>>, <<KeyBind("a", None)>>, <<KeyBind("b", 1)>>,
     <<KeyBind("a", None), KeyBind("b", 1)>>, <<KeyBind("b", None), KeyBind("a", 1)>>}

\* The tables JSONParser.load can return: a file may list one bind name under
\* several keys, the unassigned one included.
LoadedMaps ==
    {<< <<None, u>>, <<1, x>>, <<2, y>> >> : u \in LoadedLists, x \in LoadedLists, y \in LoadedLists}

LoadedInit ==
    /\ key_binds \in LoadedMaps
    /\ key_hooks = [l \in Listeners |-> <<>>]
    /\ class_listeners = [l \in Listeners |-> <<>>]
    /\ class_listener_instances = [l \in Listeners |-> <<>>]
    /\ class_listener_binds = [l \in Listeners |-> <<>>]
    /\ assigned_classes = [l \in Listeners |-> <<>>]
    /\ has_marker = [m \in Methods |-> FALSE]
    /\ assigned_listeners = [m \in Methods |-> <<>>]
    /\ init_wrappers = [c \in Classes |-> <<>>]
    /\ objects = <<>>
    /\ started = <<>>
    /\ last = Call("init", "", "", None, None, 0, "", <<>>, "")
    /\ noted = [rebound |-> <<>>, dereg |-> {}, waiting |-> {}]
    /\ em = EventManagerInit
    /\ runs = Unmarked
    /\ dispatch = Idle

RemoveNext == \E n \in Names, k \in OptKeys : MapRemove(n, k)

SpecRemove == LoadedInit /\ [][RemoveNext]_vars

\* C15: remove_bind(name, trigger) with a trigger given removes the entries named
\* name under that trigger only, leaving the entries of the same name under other
\* triggers and all entries of other names unchanged; remove_bind(name) with no
\* trigger removes every entry named name under every trigger, the unassigned one
\* included.
C15_RemoveBind ==
    [][last'.op = "map_remove" =>
          LET n == last'.name
              mine == EntriesOf(key_binds, n)
          IN  /\ EntriesOf(key_binds', n) =
                     (IF last'.key = None THEN <<>>
                      ELSE SelectSeq(mine, LAMBDA e : e[1] # last'.key))
              /\ \A o \in Names \ {n} : EntriesOf(key_binds', o) = EntriesOf(key_binds, o)
      ]_vars

\* A removal under one key took the first entry of a name that is still bound
\* under another key.
C15_Witness ==
    /\ last.op = "map_remove"
    /\ last.key # None
    /\ last.old # <<>>
    /\ last.old[1] = last.key
    /\ get_bound_key(key_binds, last.name) # <<>>

\* ------------------------------------ the bind table under every operation

TableMaps ==
    {<< <<2, <<KeyBind("a", None), KeyBind("b", 1)>> >> >>,
     << <<1, <<KeyBind("b", None)>> >>, <<None, <<KeyBind("a", 1)>> >> >>}

TableNext ==
    \/ Generate("D", "a", 2, None)
    \/ Bind("D", "a", 1, None, KEYDOWN, "f")
    \/ \E n \in Names, k \in {None, 2} : MapRebind(n, None, k)
    \/ Rebind("D", "b", 1, None)
    \/ \E k \in {None, 1} : MapRemove("b", k)
    \/ \E other \in TableMaps : Merge(other)
    \/ \E b \in BOOLEAN : ClearBind("D", "a", b)
    \/ BindMethod("D", "b", 2, None, KEYDOWN, "m1")
    \/ RegisterClass("D", "T")

SpecTable == Init /\ [][TableNext]_vars

\* C7: in every reachable state of the bind table each bind name occurs under at
\* most one trigger key and at most once in that trigger's list.
C7_NameUnderOneTrigger == \A n \in Names : Len(EntriesOf(key_binds, n)) <= 1

\* register_class captured a method whose bind name was in the table already,
\* under another key than the tag's default, with the other bind in the table too.
C7_Witness ==
    /\ last.op = "register_class"
    /\ DGet(DGet(class_listeners["D"], "b", <<>>), KEYDOWN, <<>>) # <<>>
    /\ get_bound_key(key_binds, "b") = <<None, None>>
    /\ get_bound_key(key_binds, "a") # <<>>

\* ------------------------------------------------------ modifier matching

MatchBindMods == {None, KMOD_NONE, 1, 3}

MatchEventMods == {None, KMOD_NONE, 1, 2}

MatchNext ==
    \/ \E n \in Names, m \in MatchBindMods : Bind("D", n, 1, m, KEYDOWN, "f")
    \/ \E n \in Names, m \in MatchBindMods : MapRebind(n, m, 1)
    \/ \E k \in KeyCodes, m \in MatchEventMods : Notify("D", KEYDOWN, k, m)

SpecMatch == Init /\ [][MatchNext]_vars

\* Masks a and b have a bit in common.
SharesBit(a, b) == \E i \in 0 .. 3 : (a \div (2 ^ i)) % 2 = 1 /\ (b \div (2 ^ i)) % 2 = 1

\* The free callables listener l holds under bind name n for event type e.
Responders(l, n, e) == DGet(DGet(key_hooks[l], n, <<>>), e, <<>>)

\* The last notify started every callable registered under n, each once.
Fired(n) ==
    \A i \in 1 .. Len(Responders(last.who, n, last.etype)) :
        Count(started, Thread(n, Responders(last.who, n, last.etype)[i], 0)) = 1

\* The last notify started nothing through n.
Silent(n) == \A i \in 1 .. Len(started) : started[i].via # n

\* C2: notify decides each bind under the event's trigger on its own: a bind whose
\* modifier is None fires whatever the event's modifier (absent included); a bind
\* with a non-zero mask fires iff the event has a modifier sharing a bit with it.
C2_ModifierMatching ==
    last.op = "notify" =>
        \A i \in 1 .. Len(DGet(key_binds, last.key, <<>>)) :
            LET b == DGet(key_binds, last.key, <<>>)[i]
            IN  /\ b.mod = None => Fired(b.bind_name)
                /\ (b.mod # None /\ b.mod # 0) =>
                       IF last.mod # None /\ SharesBit(b.mod, last.mod)
                       THEN Fired(b.bind_name)
                       ELSE Silent(b.bind_name)

\* Two binds share the key of the event: the one with mask 1 stayed silent under
\* an event with modifier 2 while the one with no modifier fired.
C2_Witness ==
    /\ last.op = "notify"
    /\ last.mod = 2
    /\ \E i, j \in 1 .. Len(DGet(key_binds, last.key, <<>>)) :
          LET bi == DGet(key_binds, last.key, <<>>)[i]
              bj == DGet(key_binds, last.key, <<>>)[j]
          IN  /\ bi.mod = 1 /\ Responders("D", bi.bind_name, KEYDOWN) # <<>>
              /\ Silent(bi.bind_name)
              /\ bj.mod = None
              /\ \E t \in 1 .. Len(started) : started[t].via = bj.bind_name

\* C3: a bind whose modifier is KMOD_NONE fires when the event on its trigger
\* carries modifier 0 and stays silent when a modifier bit is set.
C3_NoneSentinel ==
    last.op = "notify" =>
        \A i \in 1 .. Len(DGet(key_binds, last.key, <<>>)) :
            LET b == DGet(key_binds, last.key, <<>>)[i]
            IN  b.mod = KMOD_NONE =>
                    /\ last.mod = 0 =>
                           /\ Fired(b.bind_name)
                           /\ Responders(last.who, b.bind_name, last.etype) # <<>> =>
                                  ~Silent(b.bind_name)
                    /\ (last.mod # None /\ last.mod # 0) => Silent(b.bind_name)

\* ------------------------------------------------- fan-out over instances

\* The modifier a method's tag carries in this scenario: m1 is tagged with no
\* modifier, m2 with KMOD_NONE; both under bind "a" on key 1 for KEYDOWN.
FanMod(method) == IF method = "m1" THEN None ELSE KMOD_NONE

FanNext ==
    \/ \E method \in Methods : BindMethod("D", "a", 1, FanMod(method), KEYDOWN, method)
    \/ RegisterClass("D", "T")
    \/ Construct("T")
    \/ \E id \in 1 .. MaxInst : Drop(id)
    \/ \E e \in EventTypes, k \in KeyCodes, m \in {KMOD_NONE, 1} : Notify("D", e, k, m)

SpecFan == Init /\ [][FanNext]_vars

\* The matching rule of the specification (4.3, step 2): no modifier on the bind,
\* or a bit in common with the event's modifier, or the two equal.
SpecMatches(bind_mod, mod_keys) ==
    \/ bind_mod = None
    \/ (mod_keys # None /\ bind_mod # None /\ SharesBit(bind_mod, mod_keys))
    \/ bind_mod = mod_keys

\* The (method, class) pairs listener l holds under bind name n for event type e.
Pairs(l, n, e) == DGet(DGet(class_listeners[l], n, <<>>), e, <<>>)

\* The live instances of cls that listener l tracks.
Tracked(l, cls) ==
    {id \in 1 .. Len(objects) :
        objects[id] = cls /\ id \in DGet(class_listener_instances[l], cls, {})}

\* C1: an event whose trigger and modifier match bind n and whose subtype is the
\* one a method was captured for invokes that method exactly once on every live
\* tracked instance of its class; an event with another trigger or another
\* subtype invokes it on no instance.
C1_FanOut ==
    last.op = "notify" =>
        \A n \in Names, e \in EventTypes :
            \A p \in 1 .. Len(Pairs(last.who, n, e)) :
                LET pair == Pairs(last.who, n, e)[p]
                    bound == get_bound_key(key_binds, n)
                IN  bound # <<>> =>
                      /\ (bound[1] = last.key /\ SpecMatches(bound[2], last.mod)
                            /\ e = last.etype) =>
                             \A id \in Tracked(last.who, pair[2]) :
                                 Count(started, Thread(n, pair[1], id)) = 1
                      /\ (bound[1] # last.key \/ Pairs(last.who, n, last.etype) = <<>>) =>
                             \A t \in 1 .. Len(started) :
                                 ~(started[t].via = n /\ started[t].fn = pair[1])

\* ------------------------------------------- a method tagged by two listeners

TagNext ==
    \/ \E l \in Listeners, e \in EventTypes : TagMethod(l, "a", 1, None, e, "m1")
    \/ \E l \in Listeners : TagMethod(l, "b", 2, None, KEYDOWN, "m2")
    \/ \E l \in Listeners : RegisterTagged(l, "T")

SpecTag == Init /\ [][TagNext]_vars

\* The (method, class) pairs a registry holds under bind name n for event type e.
PairsIn(cl, n, e) == DGet(DGet(cl, n, <<>>), e, <<>>)

\* The pending entries of a list that name listener l, and those that do not.
OwnTags(tags, l) == SelectSeq(tags, LAMBDA t : t[1] = l)

OtherTags(tags, l) == SelectSeq(tags, LAMBDA t : t[1] # l)

\* The marker is on the method exactly while a listener that tagged it has still to
\* register the class.
MarkerWhileWaiting ==
    \A method \in Methods :
        has_marker[method] <=> (\E l \in Listeners : <<method, l>> \in noted.waiting)

\* What l.register_class(cls) does to a marked method of cls that l has tagged: the
\* method is captured under l's first entry, an entry of l leaves the pending list,
\* the entries of the other listeners stay as they were, and the registries of the
\* other listeners are untouched.
CapturedForCaller ==
    last'.op = "register_class" =>
        \A method \in Methods :
            LET l == last'.who
                tags == assigned_listeners[method]
                own == OwnTags(tags, l)
            IN  (InList(ClassDict(last'.target), method) /\ has_marker[method] /\ own # <<>>) =>
                    /\ InList(PairsIn(class_listeners'[l], own[1][2], own[1][5]),
                              <<method, last'.target>>)
                    /\ Len(OwnTags(assigned_listeners'[method], l)) < Len(own)
                    /\ OtherTags(assigned_listeners'[method], l) = OtherTags(tags, l)
                    /\ \A o \in Listeners \ {l} :
                          /\ class_listeners'[o] = class_listeners[o]
                          /\ class_listener_binds'[o] = class_listener_binds[o]
                          /\ assigned_classes'[o] = assigned_classes[o]

\* C4: a method tagged by two listeners D and E is captured into D's registry by
\* D.register_class(T), which removes D's pending entry only: E's entry stays and
\* nothing is captured into E's registry; the marker stays on the method while a
\* tagging listener has not yet registered the class and is absent once every
\* tagging listener has called register_class.
C4_SharedMarker == [][CapturedForCaller]_vars /\ []MarkerWhileWaiting

\* ------------------------------------------------------ deregistering a class

ClassNext ==
    \/ \E method \in Methods : BindMethod("D", "a", 1, None, KEYDOWN, method)
    \/ RegisterClass("D", "T")
    \/ Construct("T")
    \/ \E method \in Methods : UnbindMethodCall("D", method)
    \/ DeregisterTracked("D", "T")
    \/ \E k \in KeyCodes : Notify("D", KEYDOWN, k, None)

SpecClass == Init /\ [][ClassNext]_vars

\* Listener l holds nothing of class cls: no pair, no instance bucket, no method of
\* the class in the method-to-bind index, no entry in the class-to-methods index.
HoldsNothingOf(l, cls) ==
    /\ \A n \in Names, e \in EventTypes :
          \A p \in 1 .. Len(Pairs(l, n, e)) : Pairs(l, n, e)[p][2] # cls
    /\ ~DHas(class_listener_instances[l], cls)
    /\ \A method \in Methods :
          InList(ClassDict(cls), method) => ~DHas(class_listener_binds[l], method)
    /\ ~DHas(assigned_classes[l], cls)

\* C5: after deregister_class(T) no (method, T) pair remains under any bind name and
\* event type, T has no entry in the instance tracker, in the method-to-bind index
\* or in the class-to-methods index, and no later event invokes a method of T on an
\* instance that was tracked before the call.
C5_DeregisterClass ==
    /\ last.op = "deregister_class" => HoldsNothingOf(last.who, last.target)
    /\ last.op = "notify" =>
          \A t \in 1 .. Len(started) :
              \A cls \in Classes :
                  InList(ClassDict(cls), started[t].fn) =>
                      <<last.who, cls, started[t].inst>> \notin noted.dereg

\* ------------------------------------------------------- moving a bound name

MoveNext ==
    \/ Bind("D", "a", 1, None, KEYDOWN, "f")
    \/ BindMethod("D", "a", 1, None, KEYDOWN, "m1")
    \/ RegisterClass("D", "T")
    \/ Construct("T")
    \/ \E m \in {None, KMOD_NONE, 1}, k \in KeyCodes : MoveBind("a", m, k)
    \/ \E k \in KeyCodes, m \in {None, KMOD_NONE, 1} : Notify("D", KEYDOWN, k, m)

SpecMove == Init /\ [][MoveNext]_vars

\* The last KeyMap.rebind moved its bind name from one key to a different one, and
\* the name is still where it was put.
Moved ==
    /\ noted.rebound # <<>>
    /\ noted.rebound[2] # <<>>
    /\ noted.rebound[2][1] # noted.rebound[3]
    /\ get_bound_key(key_binds, noted.rebound[1]) # <<>>
    /\ get_bound_key(key_binds, noted.rebound[1])[1] = noted.rebound[3]

\* KeyMap.rebind leaves every registry of every listener as it was.
RebindKeepsRegistries == last'.op = "map_rebind" => UNCHANGED <<regVars, objVars>>

\* After a move, an event on the new key that matches the bind starts every free
\* callable and, on every tracked instance, every captured method registered under
\* the name; an event on the old key starts nothing through the name.
MovedBindFollowsKey ==
    (last.op = "notify" /\ Moved) =>
        LET n == noted.rebound[1]
            bound == get_bound_key(key_binds, n)
            responders == DGet(DGet(key_hooks[last.who], n, <<>>), last.etype, <<>>)
            pairs == Pairs(last.who, n, last.etype)
        IN  /\ (last.key = bound[1] /\ SpecMatches(bound[2], last.mod)) =>
                  /\ \A i \in 1 .. Len(responders) :
                        InList(started, Thread(n, responders[i], 0))
                  /\ \A p \in 1 .. Len(pairs) :
                        \A id \in Tracked(last.who, pairs[p][2]) :
                            InList(started, Thread(n, pairs[p][1], id))
            /\ last.key = noted.rebound[2][1] =>
                  \A t \in 1 .. Len(started) : started[t].via # n

\* C6: after KeyMap.rebind moves bind name n from trigger t1 to a different trigger
\* t2, every free callable and captured method registered under n is still
\* registered, is invoked by a matching event on t2 and is no longer invoked by any
\* event on t1.
C6_RebindKeepsRegistrations == [][RebindKeepsRegistries]_vars /\ []MovedBindFollowsKey

\* ------------------------------------------------- unbinding a free callable

UnbindNext ==
    \/ \E n \in Names, e \in EventTypes, f \in Funcs : Bind("D", n, 1, None, e, f)
    \/ \E f \in Funcs, n \in Names \cup {""} : Unbind("D", f, n)
    \/ \E e \in EventTypes : Notify("D", e, 1, None)

SpecUnbind == Init /\ [][UnbindNext]_vars

\* C16: unbind(f, n) with a bind name removes f from the callable list of every
\* event type under n for which f is registered, also when f is registered under
\* only some of n's event types, and leaves f's registrations under every other
\* bind name unchanged.
C16_UnbindNamed ==
    [][(last'.op = "unbind" /\ last'.name # "") =>
          \A e \in EventTypes :
              /\ ~InList(DGet(DGet(key_hooks'[last'.who], last'.name, <<>>), e, <<>>),
                         last'.target)
              /\ \A o \in Names \ {last'.name} :
                    DGet(DGet(key_hooks'[last'.who], o, <<>>), e, <<>>) =
                        Responders(last'.who, o, e)
      ]_vars

\* Every other callable is where it was, in the order it was.
OthersKept(l, f) ==
    \A n \in Names, e \in EventTypes :
        SelectSeq(DGet(DGet(key_hooks'[l], n, <<>>), e, <<>>), LAMBDA g : g # f) =
            SelectSeq(Responders(l, n, e), LAMBDA g : g # f)

\* What unbind(f) with no bind name does in one call.
UnbindsEverywhere ==
    (last'.op = "unbind" /\ last'.name = "") =>
        /\ \A n \in Names, e \in EventTypes :
              ~InList(DGet(DGet(key_hooks'[last'.who], n, <<>>), e, <<>>), last'.target)
        /\ OthersKept(last'.who, last'.target)

\* An event starts a free callable only through a bind name and an event type
\* under which the listener holds it.
StartsOnlyRegistered ==
    last.op = "notify" =>
        \A t \in 1 .. Len(started) :
            started[t].inst = 0 =>
                InList(Responders(last.who, started[t].via, last.etype), started[t].fn)

\* C17: unbind(f) with no bind name removes f from every bind name and every event
\* type of that listener, so no later event invokes f, and leaves the
\* registrations of every other callable unchanged.
C17_UnbindEverywhere == [][UnbindsEverywhere]_vars /\ []StartsOnlyRegistered

\* f was unbound everywhere while it was held under both bind names, and g, held
\* next to it, is still there.
C17_Witness ==
    /\ last.op = "unbind"
    /\ last.name = ""
    /\ last.target = "f"
    /\ Responders("D", "a", KEYDOWN) = <<"g">>
    /\ Responders("D", "b", KEYUP) = <<"g">>
    /\ DHas(DGet(key_hooks["D"], "b", <<>>), KEYDOWN)
    /\ Responders("D", "b", KEYDOWN) = <<>>

\* ----------------------------------------------------- unbinding a method

MethodNext ==
    \/ \E n \in Names : BindMethod("D", n, 1, None, KEYDOWN, "m1")
    \/ BindMethod("D", "a", 1, None, KEYDOWN, "m2")
    \/ RegisterClass("D", "T")
    \/ \E method \in Methods : UnbindMethodCall("D", method)

SpecMethod == Init /\ [][MethodNext]_vars

\* C18: unbind_method(m) removes every (m, type) pair from every event type of
\* every bind name recorded for m and drops m from the method-to-bind index, while
\* the other methods registered under the same bind names stay registered.
C18_UnbindMethod ==
    [][last'.op = "unbind_method" =>
          LET l == last'.who
              m == last'.target
              recorded == DGet(class_listener_binds[l], m, <<>>)
          IN  /\ \A i \in 1 .. Len(recorded), e \in EventTypes :
                    \A p \in 1 .. Len(PairsIn(class_listeners'[l], recorded[i], e)) :
                        PairsIn(class_listeners'[l], recorded[i], e)[p][1] # m
              /\ ~DHas(class_listener_binds'[l], m)
              /\ \A n \in Names, e \in EventTypes :
                    SelectSeq(PairsIn(class_listeners'[l], n, e), LAMBDA p : p[1] # m) =
                        SelectSeq(Pairs(l, n, e), LAMBDA p : p[1] # m)
              /\ \A o \in Methods \ {m} :
                    DGet(class_listener_binds'[l], o, <<>>) =
                        DGet(class_listener_binds[l], o, <<>>)
      ]_vars

\* m1 was unbound while it was captured under both bind names and m2 under one of
\* them: m2 is the only method left.
C18_Witness ==
    /\ last.op = "unbind_method"
    /\ last.target = "m1"
    /\ last.raised = ""
    /\ last.raised = ""
    /\ Pairs("D", "a", KEYDOWN) = << <<"m2", "T">> >>
    /\ DHas(DGet(class_listeners["D"], "b", <<>>), KEYDOWN)
    /\ Pairs("D", "b", KEYDOWN) = <<>>
    /\ DHas(class_listener_binds["D"], "m2")

\* ------------------------------------------------------- clearing a bind name

\* The class is declared once: m1 is tagged under "a" and m2 under "b" in the class
\* body, then the class is registered.
ClearNext ==
    \/ \E n \in Names : Bind("D", n, 1, None, KEYDOWN, "f")
    \/ ~has_marker["m1"] /\ init_wrappers["T"] = <<>>
          /\ BindMethod("D", "a", 1, None, KEYDOWN, "m1")
    \/ ~has_marker["m2"] /\ init_wrappers["T"] = <<>>
          /\ BindMethod("D", "b", 1, None, KEYDOWN, "m2")
    \/ init_wrappers["T"] = <<>> /\ RegisterClass("D", "T")
    \/ Construct("T")
    \/ \E n \in Names, b \in BOOLEAN : ClearBind("D", n, b)
    \/ Notify("D", KEYDOWN, 1, None)

SpecClear == Init /\ [][ClearNext]_vars

\* Listener l holds nothing under bind name n after the step.
NothingUnder(l, n) ==
    \A e \in EventTypes :
        /\ DGet(DGet(key_hooks'[l], n, <<>>), e, <<>>) = <<>>
        /\ PairsIn(class_listeners'[l], n, e) = <<>>

\* What clear_bind(n) does in one call when eliminate_bind is false.
ClearsName ==
    last'.op = "clear_bind" =>
        /\ NothingUnder(last'.who, last'.name)
        /\ key_binds' = key_binds
        /\ \A o \in Names \ {last'.name} :
              /\ DGet(key_hooks'[last'.who], o, <<>>) = DGet(key_hooks[last'.who], o, <<>>)
              /\ DGet(class_listeners'[last'.who], o, <<>>) =
                     DGet(class_listeners[last'.who], o, <<>>)

\* An event starts a callable or a method only through a bind name and an event
\* type under which the listener holds it.
StartsOnlyHeld ==
    last.op = "notify" =>
        \A t \in 1 .. Len(started) :
            IF started[t].inst = 0
            THEN InList(Responders(last.who, started[t].via, last.etype), started[t].fn)
            ELSE \E p \in 1 .. Len(Pairs(last.who, started[t].via, last.etype)) :
                     Pairs(last.who, started[t].via, last.etype)[p][1] = started[t].fn

\* C19: clear_bind(n) with eliminate false leaves no free callable and no captured
\* method registered under n, so no later event invokes anything through n; bind n
\* stays in the bind table with its trigger and modifier, and the callables and
\* methods under every other bind name are unchanged.
C19_ClearBind == [][ClearsName]_vars /\ []StartsOnlyHeld

\* "a" was cleared while it held a callable and a captured method; it is still in
\* the table, and "b" still holds its callable and its method.
C19_Witness ==
    /\ last.op = "clear_bind"
    /\ last.name = "a"
    /\ last.old # <<>>
    /\ DHas(key_hooks["D"], "a") /\ DGet(key_hooks["D"], "a", <<>>) = <<>>
    /\ DHas(class_listeners["D"], "a") /\ DGet(class_listeners["D"], "a", <<>>) = <<>>
    /\ DHas(class_listener_binds["D"], "m1")
    /\ Responders("D", "b", KEYDOWN) = <<"f">>
    /\ Pairs("D", "b", KEYDOWN) # <<>>

\* What clear_bind(n, eliminate_bind=True) is to do in one call.
EliminatesName ==
    last'.op = "eliminate_bind" =>
        /\ NothingUnder(last'.who, last'.name)
        /\ get_bound_key(key_binds', last'.name) = <<>>

\* An event starts something only through a bind name of the table.
StartsOnlyBound ==
    last.op = "notify" =>
        \A t \in 1 .. Len(started) : get_bound_key(key_binds, started[t].via) # <<>>

\* C20: clear_bind(n, eliminate=True) removes bind n from the bind table and clears
\* every free callable and every captured method under n, also when n has captured
\* methods but no free callables; afterwards get_bound(n) finds nothing and no
\* event invokes anything through n.
C20_EliminateBind == [][EliminatesName]_vars /\ []StartsOnlyBound

\* ------------------------------------------- deregistering an absent target

\* The call made by the step raised nothing and left the registries, the instance
\* tracker and the bind table of the listener as they were.
NoOpStep ==
    /\ last'.raised = ""
    /\ UNCHANGED <<regVars, class_listener_instances, key_binds>>

\* C21: deregistration of an absent target is never fatal: unbind_method(m) for a
\* method never captured by the listener, and deregister_class(T) for a class with
\* nothing captured (never registered, registered without tagged methods, or
\* already deregistered), complete without raising and leave the registry, the
\* instance tracker and the bind table unchanged.
C21_AbsentTarget ==
    [][/\ (last'.op = "unbind_method"
              /\ ~DHas(class_listener_binds[last'.who], last'.target)) => NoOpStep
       /\ (last'.op = "deregister_class"
              /\ DGet(assigned_classes[last'.who], last'.target, <<>>) = <<>>) => NoOpStep
      ]_vars

\* ------------------------------------------ one class, two listeners

BothNext ==
    \/ \E l \in Listeners : RegisterClass(l, "T")
    \/ Construct("T")
    \/ \E id \in 1 .. MaxInst : Drop(id)
    \/ \E l \in Listeners : DeregisterClass(l, "T")

SpecBoth == Init /\ [][BothNext]_vars

TrackNext ==
    \/ ~has_marker["m1"] /\ BindMethod("D", "a", 1, None, KEYDOWN, "m1")
    \/ ~em.has_managers["m2"] /\ EMRegisterMethod("M", KEYDOWN, "m2")
    \/ RegisterClass("D", "T")
    \/ EMRegisterClass("M", "T")
    \/ Construct("T")
    \/ \E id \in 1 .. MaxInst : Drop(id)
    \/ EMDeregisterClass("M", "T")
    \/ Notify("D", KEYDOWN, 1, None)
    \/ EMNotify("M", KEYDOWN)

SpecTrack == Init /\ [][TrackNext]_vars

\* The (method, class) pairs manager g holds for event type e.
EMPairs(g, e) == DGet(em.class_listeners[g], e, <<>>)

\* The instances of cls in the list of manager g.
EMTracked(g, cls) == DGet(em.class_listener_instances[g], cls, <<>>)

\* C23: each instance constructed from a registered class occurs exactly once in
\* the instance tracker of each dispatcher (EventManager or KeyListener) that
\* registered the class, however often that dispatcher called register_class on
\* it; a matching event therefore invokes a captured method once per instance.
C23_TrackedOnce ==
    /\ last.op = "construct" =>
          /\ \A l \in Listeners :
                InList(init_wrappers[last.target], l) =>
                    last.key \in DGet(class_listener_instances[l], last.target, {})
          /\ \A g \in Managers :
                InList(em.init_wrappers[last.target], g) =>
                    Count(EMTracked(g, last.target), last.key) = 1
    /\ last.op = "em_notify" =>
          \A p \in 1 .. Len(EMPairs(last.who, last.etype)) :
              LET pair == EMPairs(last.who, last.etype)[p]
              IN  \A i \in 1 .. Len(EMTracked(last.who, pair[2])) :
                      Count(started, Thread("", pair[1], EMTracked(last.who, pair[2])[i])) =
                          Count(EMPairs(last.who, last.etype), pair)
    /\ (last.op = "notify" /\ get_bound_key(key_binds, "a") = <<last.key, None>>) =>
          \A p \in 1 .. Len(Pairs(last.who, "a", last.etype)) :
              LET pair == Pairs(last.who, "a", last.etype)[p]
              IN  \A id \in DGet(class_listener_instances[last.who], pair[2], {}) :
                      Count(started, Thread("a", pair[1], id)) =
                          Count(Pairs(last.who, "a", last.etype), pair)

\* C24: instance tracking never keeps an instance alive, for EventManager and for
\* KeyListener: once the application drops its last reference to an instance of a
\* registered class, the instance is reclaimed, disappears from the dispatcher's
\* tracker, and no later event invokes a method on it.
C24_TrackingIsWeak ==
    /\ last.op = "drop" =>
          /\ objects[last.key] = "dead"
          /\ \A l \in Listeners :
                \A i \in 1 .. Len(class_listener_instances[l]) :
                    last.key \notin class_listener_instances[l][i][2]
          /\ ~HeldByManager(em, last.key)
    /\ last.op \in {"notify", "em_notify"} =>
          \A t \in 1 .. Len(started) :
              started[t].inst # 0 =>
                  /\ objects[started[t].inst] # "dead"
                  /\ started[t].inst \notin em.released

\* C30: after EventManager.deregister_class(T), T is absent from the manager's
\* assigned classes and from its instance tracker, T's methods are absent from
\* the method-to-event index, and no (method, T) pair remains a listener of any
\* event type.
C30_EMDeregisterClass ==
    last.op = "em_deregister_class" =>
        /\ ~DHas(em.assigned_classes[last.who], last.target)
        /\ ~DHas(em.class_listener_instances[last.who], last.target)
        /\ \A method \in Methods :
              InList(ClassDict(last.target), method) =>
                  ~DHas(em.class_listener_events[last.who], method)
        /\ \A e \in EventTypes :
              \A p \in 1 .. Len(EMPairs(last.who, e)) :
                  EMPairs(last.who, e)[p][2] # last.target

\* ------------------------------------- sequential and concurrent callables

\* Callables are marked and marked again, bound to a key and registered for an
\* event type, a class with a marked method is registered and instantiated, and
\* both dispatchers are notified.
MarkNext ==
    \/ \E func \in Funcs \cup {"m1"} : Sequential(func) \/ Concurrent(func)
    \/ key_hooks["D"] = <<>> /\ Bind("D", "a", 1, None, KEYDOWN, "f")
    \/ em.listeners["M"] = <<>> /\ EMRegister("M", KEYDOWN, "g")
    \/ ~has_marker["m1"] /\ BindMethod("D", "a", 1, None, KEYDOWN, "m1")
    \/ init_wrappers["T"] = <<>> /\ RegisterClass("D", "T")
    \/ Construct("T")
    \/ Notify("D", KEYDOWN, 1, None)
    \/ EMNotify("M", KEYDOWN)

SpecMark == Init /\ [][MarkNext]_vars

\* C25: no callable or method that carries the run-sequential mark is handed to
\* a worker thread by notify (it is called on the notifying thread instead).
C25_SequentialInline ==
    last.op \in {"notify", "em_notify"} =>
        \A i \in 1 .. Len(started) : ~runs[started[i].fn].sequential

\* C27: a call of sequential(f) or concurrent(f) leaves f with the mark of that
\* call alone, every other step leaves the marks of f as they were, and no
\* callable ever carries both marks.
C27_MarksExclusive ==
    /\ [][\A func \in Funcs \cup Methods :
            runs'[func] =
                IF last'.target = func /\ last'.op = "sequential"
                THEN [sequential |-> TRUE, concurrent |-> FALSE]
                ELSE IF last'.target = func /\ last'.op = "concurrent"
                THEN [sequential |-> FALSE, concurrent |-> TRUE]
                ELSE runs[func]]_vars
    /\ [](\A func \in Funcs \cup Methods :
            ~(runs[func].sequential /\ runs[func].concurrent))

\* f was marked concurrent and sequential(f) has just replaced that mark, while
\* g still carries the concurrent mark it was given earlier.
C27_Witness ==
    /\ last.op = "sequential" /\ last.target = "f"
    /\ last.old = <<FALSE, TRUE>>
    /\ runs["f"] = [sequential |-> TRUE, concurrent |-> FALSE]
    /\ runs["g"] = [sequential |-> FALSE, concurrent |-> TRUE]

\* ------------------------------------------------------ workers of notify

\* Callables, one of which raises, are bound to key 1 and registered for KEYDOWN
\* in either order; a class with one method bound through the listener and one
\* registered with the manager is registered with both and instantiated; events
\* on key 1 are dispatched.
WorkNext ==
    \/ \E f \in Funcs : Bind("D", "a", 1, None, KEYDOWN, f)
    \/ \E f \in Funcs : /\ ~InList(DGet(em.listeners["M"], KEYDOWN, <<>>), f)
                         /\ EMRegister("M", KEYDOWN, f)
    \/ ~has_marker["m1"] /\ BindMethod("D", "a", 1, None, KEYDOWN, "m1")
    \/ ~em.has_managers["m2"] /\ EMRegisterMethod("M", KEYDOWN, "m2")
    \/ init_wrappers["T"] = <<>> /\ RegisterClass("D", "T")
    \/ em.init_wrappers["T"] = <<>> /\ EMRegisterClass("M", "T")
    \/ Construct("T")
    \/ \E e \in EventTypes : Notify("D", e, 1, None)
    \/ EMNotify("M", KEYDOWN)

SpecWork == Init /\ [][WorkNext]_vars

\* The number of threads the last notify started for callable fn on instance
\* inst (0 for a free callable) through bind name via.
Workers(via, fn, inst) == Count(started, Thread(via, fn, inst))

\* C26: notify raises nothing and starts one worker for every registration of a
\* matched callable and one for every matched (method, class) pair and tracked
\* instance of the class, whether or not a callable among them raises.
C26_WorkersIndependent ==
    /\ last.op = "notify" =>
          /\ last.raised = ""
          /\ \A i \in 1 .. Len(DGet(key_binds, last.key, <<>>)) :
                LET b == DGet(key_binds, last.key, <<>>)[i]
                    n == b.bind_name
                IN  b.mod = None =>
                      /\ \A f \in Funcs :
                            Workers(n, f, 0) = Count(Responders(last.who, n, last.etype), f)
                      /\ \A method \in Methods, cls \in Classes, id \in 1 .. MaxInst :
                            id \in DGet(class_listener_instances[last.who], cls, {}) =>
                                Workers(n, method, id) =
                                    Count(Pairs(last.who, n, last.etype), <<method, cls>>)
    /\ last.op = "em_notify" =>
          /\ last.raised = ""
          /\ \A f \in Funcs :
                Workers("", f, 0) = Count(DGet(em.listeners[last.who], last.etype, <<>>), f)
          /\ \A method \in Methods, cls \in Classes, id \in 1 .. MaxInst :
                Workers("", method, id) =
                    Count(EMPairs(last.who, last.etype), <<method, cls>>)
                    * Count(DGet(em.class_listener_instances[last.who], cls, <<>>), id)

\* g, which raises, was bound before f and before the method of a tracked
\* instance: the notify that started g started the other two as well.
C26_Witness ==
    /\ last.op = "notify" /\ last.raised = ""
    /\ Len(started) >= 3
    /\ started[1].fn \in Raises
    /\ started[2].fn = "f"
    /\ started[3].fn = "m1" /\ started[3].inst = 1

\* --------------------------------------------- one table, two listeners

\* Listener D binds f and listener E binds g and a method of T under the same
\* names; D rebinds and eliminates binds, instances are made, and either listener
\* is notified.
ShareNext ==
    \/ \E n \in Names, k \in KeyCodes : Bind("D", n, k, None, KEYDOWN, "f")
    \/ \E n \in Names : Bind("E", n, 1, None, KEYDOWN, "g")
    \/ ~has_marker["m1"] /\ BindMethod("E", "a", 1, None, KEYDOWN, "m1")
    \/ init_wrappers["T"] = <<>> /\ RegisterClass("E", "T")
    \/ Construct("T")
    \/ \E n \in Names, k \in KeyCodes : Rebind("D", n, k, None)
    \/ \E n \in Names : ClearBind("D", n, TRUE)
    \/ \E l \in Listeners, k \in KeyCodes : Notify(l, KEYDOWN, k, None)

SpecShare == Init /\ [][ShareNext]_vars

\* The bind names the shared table lists under trigger key.
NamesUnder(key) ==
    {DGet(key_binds, key, <<>>)[i].bind_name : i \in 1 .. Len(DGet(key_binds, key, <<>>))}

\* notify by any listener fires what that listener holds under the names the
\* shared table lists under the event's trigger, and nothing under other names.
ConsultsSharedTable ==
    last.op = "notify" =>
        \A n \in Names :
            IF n \in NamesUnder(last.key) THEN Fired(n) ELSE Silent(n)

\* notify by a listener starts only callables and methods that listener holds.
StartsOnlyOwn ==
    last.op = "notify" =>
        \A t \in 1 .. Len(started) :
            IF started[t].inst = 0
            THEN InList(Responders(last.who, started[t].via, last.etype), started[t].fn)
            ELSE \E cls \in Classes :
                     InList(Pairs(last.who, started[t].via, last.etype),
                            <<started[t].fn, cls>>)

\* C28: every listener dispatches by the one shared table, so a bind that one
\* listener rebinds sits under the new trigger for every listener's callables;
\* and notify by a listener starts nothing that only another listener holds.
C28_SharedTable ==
    /\ (last.op = "rebind" /\ last.old # <<>>) =>
           last.name \in NamesUnder(last.key)
    /\ ConsultsSharedTable
    /\ StartsOnlyOwn

\* ---------------------------------------------------- the unassigned trigger

\* Callables and a method are bound with a key or with none, bind names are moved
\* between keys and the unassigned trigger, and events with and without a key are
\* dispatched.
NoneNext ==
    \/ \E n \in Names, k \in OptKeys : Bind("D", n, k, None, KEYDOWN, "f")
    \/ ~has_marker["m1"] /\ BindMethod("D", "a", None, None, KEYDOWN, "m1")
    \/ init_wrappers["T"] = <<>> /\ RegisterClass("D", "T")
    \/ Construct("T")
    \/ \E n \in Names, k \in OptKeys : MapRebind(n, None, k)
    \/ \E e \in EventTypes, k \in OptKeys : Notify("D", e, k, None)

SpecNone == Init /\ [][NoneNext]_vars

\* C29: no event, an event without a key included, starts a callable or method
\* through a bind name that sits under the unassigned trigger.
C29_UnassignedSilent ==
    last.op = "notify" =>
        \A n \in Names :
            (/\ get_bound_key(key_binds, n) # <<>>
             /\ get_bound_key(key_binds, n)[1] = None) => Silent(n)

\* ------------------------------------------- EventManager: deregistration

\* Methods of T are tagged for the manager, T is registered and instantiated,
\* methods are deregistered and events dispatched.
EMMethodNext ==
    \/ \E method \in Methods, e \in EventTypes :
           ~em.has_managers[method] /\ EMRegisterMethod("M", e, method)
    \/ EMRegisterClass("M", "T")
    \/ Construct("T")
    \/ \E method \in Methods : EMDeregisterMethod("M", method)
    \/ \E e \in EventTypes : EMNotify("M", e)

SpecEMMethod == Init /\ [][EMMethodNext]_vars

\* C31: after EventManager.deregister_method(m), m is absent from the
\* method-to-event index and from the pairs of every event type.
C31_EMDeregisterMethod ==
    last.op = "em_deregister_method" =>
        /\ ~DHas(em.class_listener_events[last.who], last.target)
        /\ \A e \in EventTypes :
              \A p \in 1 .. Len(EMPairs(last.who, e)) :
                  EMPairs(last.who, e)[p][1] # last.target

\* Free functions are registered for either event type, any number of times,
\* deregistered from one event type or from all, event types are purged and
\* events dispatched.
EMNext ==
    \/ \E e \in EventTypes, f \in Funcs : EMRegister("M", e, f)
    \/ \E e \in EventTypes \cup {None}, f \in Funcs : EMDeregister("M", f, e)
    \/ \E e \in EventTypes : EMPurgeEvent("M", e)
    \/ \E e \in EventTypes : EMNotify("M", e)

SpecEM == Init /\ [][EMNext]_vars

\* The free functions manager g holds for event type e.
EMListeners(m, g, e) == DGet(m.listeners[g], e, <<>>)

\* C32: deregister(f, e) leaves f out of the listeners of e and in the listeners
\* of every other event type that held it; deregister(f) leaves f a listener of
\* no event type.
C32_EMDeregister ==
    [][last'.op = "em_deregister" =>
          IF last'.etype # None
          THEN /\ ~InList(EMListeners(em', last'.who, last'.etype), last'.target)
               /\ \A e \in EventTypes \ {last'.etype} :
                     EMListeners(em', last'.who, e) = EMListeners(em, last'.who, e)
          ELSE \A e \in EventTypes :
                   ~InList(EMListeners(em', last'.who, e), last'.target)]_vars

\* C33: purge_event(e) leaves no free function listening to e and the listeners
\* of every other event type as they were.
C33_PurgeEvent ==
    [][last'.op = "em_purge_event" =>
          /\ EMListeners(em', last'.who, last'.etype) = <<>>
          /\ \A e \in EventTypes \ {last'.etype} :
                EMListeners(em', last'.who, e) = EMListeners(em, last'.who, e)]_vars

\* KEYDOWN has just been purged of its two listeners while KEYUP keeps its own,
\* and the event that follows would start nothing for KEYDOWN.
C33_Witness ==
    /\ last.op = "em_purge_event" /\ last.etype = KEYDOWN
    /\ DHas(em.listeners["M"], KEYDOWN)
    /\ EMListeners(em, "M", KEYDOWN) = <<>>
    /\ EMListeners(em, "M", KEYUP) = <<"g", "f">>

\* ------------------------------------------------- export then import

\* The triggers a table may use here: the key codes, key code 0 and None.
PackKeys == OptKeys \cup {0}

\* Binds are generated and moved among the triggers, and the table is exported
\* and imported again.
PackNext ==
    \/ \E n \in Names, k \in PackKeys, m \in {None, 1} : Generate("D", n, k, m)
    \/ \E n \in Names, k \in PackKeys, m \in {None, 1} : MapRebind(n, m, k)
    \/ PackUnpack

SpecPack == Init /\ [][PackNext]_vars

\* Dicts a and b have the same keys and the same value under each.
SameDict(a, b) ==
    /\ DKeys(a) = DKeys(b)
    /\ \A k \in DKeys(a) : DGet(a, k, <<>>) = DGet(b, k, <<>>)

\* C34: unpacking what pack_binds returned gives the table back, trigger by
\* trigger and bind by bind in order; "null" is exported exactly when None is a
\* trigger of the table, and every trigger has an exported key of its own.
C34_PackRoundTrip ==
    last.op = "pack_unpack" =>
        /\ SameDict(last.old, key_binds)
        /\ DHas(last.ret, "null") <=> DHas(key_binds, None)
        /\ Len(last.ret) = Len(key_binds)

\* --------------------------------------- several pending entries of one listener

\* C35: l.register_class(cls) captures every marked method of cls under each of
\* its pending entries that names l and leaves no entry naming l in the list.
C35_CapturesEveryEntry ==
    [][last'.op = "register_class" =>
          \A method \in Methods :
              LET l == last'.who
                  own == OwnTags(assigned_listeners[method], l)
              IN  (InList(ClassDict(last'.target), method) /\ has_marker[method]) =>
                      /\ \A i \in 1 .. Len(own) :
                            InList(PairsIn(class_listeners'[l], own[i][2], own[i][5]),
                                   <<method, last'.target>>)
                      /\ OwnTags(assigned_listeners'[method], l) = <<>>]_vars

\* ---------------------------------------------------- one entry per key

\* Callables are bound and registered, methods are tagged and their class is
\* registered, with either dispatcher and any number of times.
DupNext ==
    \/ \E f \in Funcs : Bind("D", "a", 1, None, KEYDOWN, f)
    \/ EMRegister("M", KEYDOWN, "f")
    \/ BindMethod("D", "a", 1, None, KEYDOWN, "m1")
    \/ EMRegisterMethod("M", KEYDOWN, "m2")
    \/ RegisterClass("D", "T")
    \/ EMRegisterClass("M", "T")

SpecDup == Init /\ [][DupNext]_vars

\* No element occurs twice in list l.
NoDuplicate(l) == \A i, j \in 1 .. Len(l) : l[i] = l[j] => i = j

\* C36: no list of a registry, of free callables or of (method, class) pairs,
\* under one bind name or event type and one event subtype, holds an element
\* twice.
C36_OncePerKey ==
    /\ \A l \in Listeners, n \in Names, e \in EventTypes :
          NoDuplicate(Responders(l, n, e)) /\ NoDuplicate(Pairs(l, n, e))
    /\ \A g \in Managers, e \in EventTypes :
          NoDuplicate(EMListeners(em, g, e)) /\ NoDuplicate(EMPairs(g, e))

\* ------------------------------------- registry changes during a notify

\* Callables are bound to and unbound from bind "a" on key 1 while a notify for
\* that key goes through its loops step by step.
RaceNext ==
    \/ \E f \in Funcs : Bind("D", "a", 1, None, KEYDOWN, f)
    \/ \E f \in Funcs : Unbind("D", f, "a")
    \/ NotifyEnter("D", KEYDOWN, 1, None)
    \/ NotifyStep

SpecRace == Init /\ [][RaceNext]_vars

\* C37: the running notify reads the registry list as it is at each step, with no
\* snapshot: the callable it starts is one that is registered at that moment.
C37_LiveIteration ==
    [][(dispatch.phase = "responders" /\ dispatch'.started # dispatch.started) =>
          InList(Responders(dispatch.who, dispatch.name, dispatch.etype),
                 dispatch'.started[Len(dispatch'.started)].fn)]_vars

\* The race: f and g were registered when notify was entered; f was started and
\* unbound while the loop was running; notify has returned without starting g,
\* which is still registered.
C37_Witness ==
    /\ dispatch.phase = "done" /\ last.op = "notify"
    /\ DGet(DGet(dispatch.hooks, "a", <<>>), KEYDOWN, <<>>) = <<"f", "g">>
    /\ Responders("D", "a", KEYDOWN) = <<"g">>
    /\ started = <<Thread("a", "f", 0)>>

\* ------------------------------------------------------ inverse indices

\* Methods of T are tagged under two bind names, T is registered, methods are
\* unbound, bind names are cleared and T is deregistered.
IndexNext ==
    \/ ~has_marker["m1"] /\ BindMethod("D", "a", 1, None, KEYDOWN, "m1")
    \/ ~has_marker["m2"] /\ BindMethod("D", "b", 1, None, KEYDOWN, "m2")
    \/ RegisterClass("D", "T")
    \/ \E method \in Methods : UnbindMethodCall("D", method)
    \/ \E n \in Names : ClearBind("D", n, FALSE)
    \/ DeregisterClass("D", "T")

SpecIndex == Init /\ [][IndexNext]_vars

\* Listener l holds method under bind name n, for some event type and class.
RegisteredUnder(l, method, n) ==
    \E e \in EventTypes, cls \in Classes : InList(Pairs(l, n, e), <<method, cls>>)

\* C38: bind name n is listed for method m in _class_listener_binds exactly when
\* some (m, T) pair is registered under n, and m is listed under T in
\* _assigned_classes exactly when some (m, T) pair is registered.
C38_IndicesAgree ==
    \A l \in Listeners, method \in Methods :
        /\ \A n \in Names :
              InList(DGet(class_listener_binds[l], method, <<>>), n)
                  <=> RegisteredUnder(l, method, n)
        /\ \A cls \in Classes :
              InList(DGet(assigned_classes[l], cls, <<>>), method)
                  <=> \E n \in Names, e \in EventTypes :
                          InList(Pairs(l, n, e), <<method, cls>>)

\* --------------------------------------- instances made after deregistration

\* T is declared with a bound method, registered once and deregistered after
\* that; instances are made and dropped before and after, and events are
\* dispatched.
GoneNext ==
    \/ ~has_marker["m1"] /\ init_wrappers["T"] = <<>>
          /\ BindMethod("D", "a", 1, None, KEYDOWN, "m1")
    \/ has_marker["m1"] /\ init_wrappers["T"] = <<>> /\ RegisterClass("D", "T")
    \/ Construct("T")
    \/ \E id \in 1 .. MaxInst : Drop(id)
    \/ init_wrappers["T"] # <<>> /\ DeregisterClass("D", "T")
    \/ Notify("D", KEYDOWN, 1, None)

SpecGone == Init /\ [][GoneNext]_vars

\* T has been registered with listener l and deregistered since: its
\* initializer carries l's wrapper and l's class-to-methods index, which held T
\* from the registration on, has lost it.
Deregistered(l, cls) ==
    InList(init_wrappers[cls], l) /\ ~DHas(assigned_classes[l], cls)

\* C39: in every state after deregister_class(T) on a listener, T not having
\* been registered again, T is absent from the listener's instance tracker.
C39_StaysUntracked ==
    \A l \in Listeners, cls \in Classes :
        Deregistered(l, cls) => ~DHas(class_listener_instances[l], cls)

\* ------------------------------------------- instances of a subclass

\* T is declared with one method bound through the listener and one registered
\* with the manager, and is registered with both; instances of T and of its
\* subclass S, which is registered with nobody, are made; events are dispatched.
SubNext ==
    \/ ~has_marker["m1"] /\ init_wrappers["T"] = <<>>
          /\ BindMethod("D", "a", 1, None, KEYDOWN, "m1")
    \/ ~em.has_managers["m2"] /\ em.init_wrappers["T"] = <<>>
          /\ EMRegisterMethod("M", KEYDOWN, "m2")
    \/ init_wrappers["T"] = <<>> /\ RegisterClass("D", "T")
    \/ em.init_wrappers["T"] = <<>> /\ EMRegisterClass("M", "T")
    \/ Construct("T")
    \/ ConstructSubclass("S", "T")
    \/ \E e \in EventTypes, k \in KeyCodes : Notify("D", e, k, None)
    \/ \E e \in EventTypes : EMNotify("M", e)

SpecSub == Init /\ [][SubNext]_vars

\* C40: an event that matches invokes each method captured for T exactly once on
\* every instance of S that T's wrapped initializer has filed with the
\* dispatcher.
C40_SubclassDispatch ==
    /\ last.op = "notify" =>
          \A n \in NamesUnder(last.key), method \in Methods :
              InList(Pairs(last.who, n, last.etype), <<method, "T">>) =>
                  \A id \in DGet(class_listener_instances[last.who], "S", {}) :
                      Workers(n, method, id) = 1
    /\ last.op = "em_notify" =>
          \A method \in Methods :
              InList(EMPairs(last.who, last.etype), <<method, "T">>) =>
                  \A id \in 1 .. MaxInst :
                      InList(EMTracked(last.who, "S"), id) => Workers("", method, id) = 1

====
